---- MODULE Spec2Model ----
(***************************************************************************)
(* A model of npaes (src/npaes/__init__.py): the AES block cipher written  *)
(* with NumPy arrays.  An ndarray is a record [shape, data]: shape is the  *)
(* tuple of dimensions and data the bytes in C (row-major) order, indexed  *)
(* from 0.  A failed NumPy call is a record [err |-> <exception name>].    *)
(***************************************************************************)
EXTENDS Integers, Sequences, FiniteSets, TLC

\* ---------------------------------------------------------------- bounds
\* Calls the caller makes one after the other on the same arrays.
MaxCalls == 2
\* Generated blocks and keys (per key length) besides the FIPS-197 vectors.
NumGen == 1
\* Functions a test calls one after the other on a block.
MaxApply == 3
\* Calls of gf_multiply a caller makes on its two arrays.
MaxMul == 2
\* Calls of hex_to_array and array_to_hex a caller makes in a row.
MaxHex == 3
\* Times a thread is suspended inside its call while both threads work on
\* one array.
MaxPreempt == 1

\* ------------------------------------------------------ program constants
NB == 4

numrounds_table == [nk \in {4, 6, 8} |-> CASE nk = 4 -> 10 [] nk = 6 -> 12 [] nk = 8 -> 14]

SBOX ==
  <<
     99, 124, 119, 123, 242, 107, 111, 197,  48,   1, 103,  43, 254, 215, 171, 118,
    202, 130, 201, 125, 250,  89,  71, 240, 173, 212, 162, 175, 156, 164, 114, 192,
    183, 253, 147,  38,  54,  63, 247, 204,  52, 165, 229, 241, 113, 216,  49,  21,
      4, 199,  35, 195,  24, 150,   5, 154,   7,  18, 128, 226, 235,  39, 178, 117,
      9, 131,  44,  26,  27, 110,  90, 160,  82,  59, 214, 179,  41, 227,  47, 132,
     83, 209,   0, 237,  32, 252, 177,  91, 106, 203, 190,  57,  74,  76,  88, 207,
    208, 239, 170, 251,  67,  77,  51, 133,  69, 249,   2, 127,  80,  60, 159, 168,
     81, 163,  64, 143, 146, 157,  56, 245, 188, 182, 218,  33,  16, 255, 243, 210,
    205,  12,  19, 236,  95, 151,  68,  23, 196, 167, 126,  61, 100,  93,  25, 115,
     96, 129,  79, 220,  34,  42, 144, 136,  70, 238, 184,  20, 222,  94,  11, 219,
    224,  50,  58,  10,  73,   6,  36,  92, 194, 211, 172,  98, 145, 149, 228, 121,
    231, 200,  55, 109, 141, 213,  78, 169, 108,  86, 244, 234, 101, 122, 174,   8,
    186, 120,  37,  46,  28, 166, 180, 198, 232, 221, 116,  31,  75, 189, 139, 138,
    112,  62, 181, 102,  72,   3, 246,  14,  97,  53,  87, 185, 134, 193,  29, 158,
    225, 248, 152,  17, 105, 217, 142, 148, 155,  30, 135, 233, 206,  85,  40, 223,
    140, 161, 137,  13, 191, 230,  66, 104,  65, 153,  45,  15, 176,  84, 187,  22
  >>

ETABLE ==
  <<
      1,   3,   5,  15,  17,  51,  85, 255,  26,  46, 114, 150, 161, 248,  19,  53,
     95, 225,  56,  72, 216, 115, 149, 164, 247,   2,   6,  10,  30,  34, 102, 170,
    229,  52,  92, 228,  55,  89, 235,  38, 106, 190, 217, 112, 144, 171, 230,  49,
     83, 245,   4,  12,  20,  60,  68, 204,  79, 209, 104, 184, 211, 110, 178, 205,
     76, 212, 103, 169, 224,  59,  77, 215,  98, 166, 241,   8,  24,  40, 120, 136,
    131, 158, 185, 208, 107, 189, 220, 127, 129, 152, 179, 206,  73, 219, 118, 154,
    181, 196,  87, 249,  16,  48,  80, 240,  11,  29,  39, 105, 187, 214,  97, 163,
    254,  25,  43, 125, 135, 146, 173, 236,  47, 113, 147, 174, 233,  32,  96, 160,
    251,  22,  58,  78, 210, 109, 183, 194,  93, 231,  50,  86, 250,  21,  63,  65,
    195,  94, 226,  61,  71, 201,  64, 192,  91, 237,  44, 116, 156, 191, 218, 117,
    159, 186, 213, 100, 172, 239,  42, 126, 130, 157, 188, 223, 122, 142, 137, 128,
    155, 182, 193,  88, 232,  35, 101, 175, 234,  37, 111, 177, 200,  67, 197,  84,
    252,  31,  33,  99, 165, 244,   7,   9,  27,  45, 119, 153, 176, 203,  70, 202,
     69, 207,  74, 222, 121, 139, 134, 145, 168, 227,  62,  66, 198,  81, 243,  14,
     18,  54,  90, 238,  41, 123, 141, 140, 143, 138, 133, 148, 167, 242,  13,  23,
     57,  75, 221, 124, 132, 151, 162, 253,  28,  36, 108, 180, 199,  82, 246,   1
  >>

LTABLE ==
  <<
      0,   0,  25,   1,  50,   2,  26, 198,  75, 199,  27, 104,  51, 238, 223,   3,
    100,   4, 224,  14,  52, 141, 129, 239,  76, 113,   8, 200, 248, 105,  28, 193,
    125, 194,  29, 181, 249, 185,  39, 106,  77, 228, 166, 114, 154, 201,   9, 120,
    101,  47, 138,   5,  33,  15, 225,  36,  18, 240, 130,  69,  53, 147, 218, 142,
    150, 143, 219, 189,  54, 208, 206, 148,  19,  92, 210, 241,  64,  70, 131,  56,
    102, 221, 253,  48, 191,   6, 139,  98, 179,  37, 226, 152,  34, 136, 145,  16,
    126, 110,  72, 195, 163, 182,  30,  66,  58, 107,  40,  84, 250, 133,  61, 186,
     43, 121,  10,  21, 155, 159,  94, 202,  78, 212, 172, 229, 243, 115, 167,  87,
    175,  88, 168,  80, 244, 234, 214, 116,  79, 174, 233, 213, 231, 230, 173, 232,
     44, 215, 117, 122, 235,  22,  11, 245,  89, 203,  95, 176, 156, 169,  81, 160,
    127,  12, 246, 111,  23, 196,  73, 236, 216,  67,  31,  45, 164, 118, 123, 183,
    204, 187,  62,  90, 251,  96, 177, 134,  59,  82, 161, 108, 170,  85,  41, 157,
    151, 178, 135, 144,  97, 190, 220, 252, 188, 149, 207, 205,  55,  63,  91, 209,
     83,  57, 132,  60,  65, 162, 109,  71,  20,  42, 158,  93,  86, 242, 211, 171,
     68,  17, 146, 217,  35,  32,  46, 137, 180, 124, 184,  38, 119, 153, 227, 165,
    103,  74, 237, 222, 197,  49, 254,  24,  13,  99, 140, 128, 192, 247, 112,   7
  >>

INVSBOX ==
  <<
     82,   9, 106, 213,  48,  54, 165,  56, 191,  64, 163, 158, 129, 243, 215, 251,
    124, 227,  57, 130, 155,  47, 255, 135,  52, 142,  67,  68, 196, 222, 233, 203,
     84, 123, 148,  50, 166, 194,  35,  61, 238,  76, 149,  11,  66, 250, 195,  78,
      8,  46, 161, 102,  40, 217,  36, 178, 118,  91, 162,  73, 109, 139, 209,  37,
    114, 248, 246, 100, 134, 104, 152,  22, 212, 164,  92, 204,  93, 101, 182, 146,
    108, 112,  72,  80, 253, 237, 185, 218,  94,  21,  70,  87, 167, 141, 157, 132,
    144, 216, 171,   0, 140, 188, 211,  10, 247, 228,  88,   5, 184, 179,  69,   6,
    208,  44,  30, 143, 202,  63,  15,   2, 193, 175, 189,   3,   1,  19, 138, 107,
     58, 145,  17,  65,  79, 103, 220, 234, 151, 242, 207, 206, 240, 180, 230, 115,
    150, 172, 116,  34, 231, 173,  53, 133, 226, 249,  55, 232,  28, 117, 223, 110,
     71, 241,  26, 113,  29,  41, 197, 137, 111, 183,  98,  14, 170,  24, 190,  27,
    252,  86,  62,  75, 198, 210, 121,  32, 154, 219, 192, 254, 120, 205,  90, 244,
     31, 221, 168,  51, 136,   7, 199,  49, 177,  18,  16,  89,  39, 128, 236,  95,
     96,  81, 127, 169,  25, 181,  74,  13,  45, 229, 122, 159, 147, 201, 156, 239,
    160, 224,  59,  77, 174,  42, 245, 176, 200, 235, 187,  60, 131,  83, 153,  97,
     23,  43,   4, 126, 186, 119, 214,  38, 225, 105,  20,  99,  85,  33,  12, 125
  >>

colindexer ==
  << <<0, 1, 2, 3>>,
     <<1, 2, 3, 0>>,
     <<2, 3, 0, 1>>,
     <<3, 0, 1, 2>> >>

invcolindexer ==
  << <<0, 1, 2, 3>>,
     <<3, 0, 1, 2>>,
     <<2, 3, 0, 1>>,
     <<1, 2, 3, 0>> >>

ax_polynomial ==
  << <<2, 3, 1, 1>>,
     <<1, 2, 3, 1>>,
     <<1, 1, 2, 3>>,
     <<3, 1, 1, 2>> >>

inv_ax_polynomial ==
  << <<14, 11, 13,  9>>,
     << 9, 14, 11, 13>>,
     <<13,  9, 14, 11>>,
     <<11, 13,  9, 14>> >>

\* RCON[j + 1] is the source's RCON[j]; entry 0 is the placeholder row of
\* np.nan, a float, written here as a number that is no byte.
NaN == -1

RCON ==
  << <<NaN, NaN, NaN, NaN>>,
     <<1, 0, 0, 0>>,   <<2, 0, 0, 0>>,   <<4, 0, 0, 0>>,   <<8, 0, 0, 0>>,
     <<16, 0, 0, 0>>,  <<32, 0, 0, 0>>,  <<64, 0, 0, 0>>,  <<128, 0, 0, 0>>,
     <<27, 0, 0, 0>>,  <<54, 0, 0, 0>>,  <<108, 0, 0, 0>>, <<216, 0, 0, 0>>,
     <<171, 0, 0, 0>>, <<77, 0, 0, 0>>,  <<154, 0, 0, 0>> >>

\* ------------------------------------------------------------ byte algebra
Byte == 0..255

bit(x, k) == (x \div k) % 2

\* numpy.bitwise_xor on two uint8 values, bit by bit
xor_bits(a, b) ==
    ((bit(a, 1) + bit(b, 1)) % 2)
  + ((bit(a, 2) + bit(b, 2)) % 2) * 2
  + ((bit(a, 4) + bit(b, 4)) % 2) * 4
  + ((bit(a, 8) + bit(b, 8)) % 2) * 8
  + ((bit(a, 16) + bit(b, 16)) % 2) * 16
  + ((bit(a, 32) + bit(b, 32)) % 2) * 32
  + ((bit(a, 64) + bit(b, 64)) % 2) * 64
  + ((bit(a, 128) + bit(b, 128)) % 2) * 128

\* bitwise_xor for every pair of bytes, worked out once
XorTable == [a \in Byte |-> [b \in Byte |-> xor_bits(a, b)]]

xor(a, b) == XorTable[a][b]

\* ----------------------------------------------------------------- ndarray
IsErr(a) == "err" \in DOMAIN a

Error(e) == [err |-> e]

RECURSIVE Prod(_)
Prod(shape) == IF shape = <<>> THEN 1 ELSE Head(shape) * Prod(Tail(shape))

Size(a) == Prod(a.shape)

ndarray(shape, data) == [shape |-> shape, data |-> data]

\* the array holding the elements of the tuple s, one-dimensional
array(s) == ndarray(<<Len(s)>>, [k \in 0..(Len(s) - 1) |-> s[k + 1]])

\* multi-index (a tuple, each entry from 0) of flat position k in C order
RECURSIVE Unravel(_, _)
Unravel(shape, k) ==
  IF shape = <<>> THEN <<>>
  ELSE LET inner == Prod(Tail(shape))
       IN  <<k \div inner>> \o Unravel(Tail(shape), k % inner)

RECURSIVE Ravel(_, _)
Ravel(shape, idx) ==
  IF shape = <<>> THEN 0
  ELSE Head(idx) * Prod(Tail(shape)) + Ravel(Tail(shape), Tail(idx))

At(a, idx) == a.data[Ravel(a.shape, idx)]

\* s padded on the left with 1s up to n dimensions
PadShape(s, n) == [d \in 1..(n - Len(s)) |-> 1] \o s

Max(x, y) == IF x >= y THEN x ELSE y

\* NumPy broadcasting of two shapes: the common shape, or <<-1>> when they
\* cannot be broadcast together
BroadcastShape(s1, s2) ==
  LET n == Max(Len(s1), Len(s2))
      p1 == PadShape(s1, n)
      p2 == PadShape(s2, n)
  IN  IF \A d \in 1..n : p1[d] = p2[d] \/ p1[d] = 1 \/ p2[d] = 1
      THEN [d \in 1..n |-> IF p1[d] = 1 THEN p2[d] ELSE p1[d]]
      ELSE <<-1>>

\* a value of shape s may be stored into (or read as) shape target
CanBroadcastTo(s, target) ==
  /\ Len(s) <= Len(target)
  /\ BroadcastShape(s, target) = target

\* the element of a seen at multi-index idx of a shape a was broadcast to
BAt(a, idx) ==
  LET n == Len(a.shape)
      off == Len(idx) - n
  IN  At(a, [d \in 1..n |-> IF a.shape[d] = 1 THEN 0 ELSE idx[off + d]])

BroadcastTo(a, target) ==
  IF a.shape = target THEN a
  ELSE ndarray(target, [k \in 0..(Prod(target) - 1) |-> BAt(a, Unravel(target, k))])

RECURSIVE StripOnes(_)
StripOnes(s) == IF s # <<>> /\ Head(s) = 1 THEN StripOnes(Tail(s)) ELSE s

\* out[:] = value: value is broadcast into out's shape (leading dimensions
\* of length 1 of the value are dropped when it has too many); out keeps
\* its shape
SetAll(out, value) ==
  LET vs == IF Len(value.shape) > Len(out.shape)
            THEN StripOnes(value.shape) ELSE value.shape
      v  == ndarray(vs, value.data)
  IN  IF CanBroadcastTo(vs, out.shape)
      THEN BroadcastTo(v, out.shape)
      ELSE Error("ValueError")

\* gf_multiply_at without the rule for a factor that is zero
gf_multiply_at_NoZero(x, y) ==
  LET res == LTABLE[x + 1] + LTABLE[y + 1]
  IN  ETABLE[(IF res > 255 THEN res - 255 ELSE res) + 1]

\* gf_multiply_at with the sum of logarithms reduced by 256, not by 255
gf_multiply_at_Mut(x, y) ==
  LET res == LTABLE[x + 1] + LTABLE[y + 1]
      e   == ETABLE[(IF res > 255 THEN res - 256 ELSE res) + 1]
  IN  IF ~(x # 0 /\ y # 0) THEN 0 ELSE e

\* what a lookup with an index outside the table gives in place of a byte
OutOfBounds == -1

\* LTABLE[x] + LTABLE[y], the sum of the logarithms of two bytes
LogSum(x, y) == LTABLE[x + 1] + LTABLE[y + 1]

\* ExpIndex without the reduction: the sum is the index
ExpIndex_Mut(res) == res

\* np.where(res > 0xff, res - _ff, res), the index into ETABLE
ExpIndex(res) == IF res > 255 THEN res - 255 ELSE res

\* ETABLE[idx] for one index: NumPy counts a negative index from the end of
\* the table and raises IndexError for an index outside -256..255
ETABLE_at(idx) ==
  IF idx \in 0..255 THEN ETABLE[idx + 1]
  ELSE IF idx \in -256..-1 THEN ETABLE[idx + 257]
  ELSE OutOfBounds

\* one element of gf_multiply: x and y are bytes
gf_multiply_at(x, y) ==
  LET res == LogSum(x, y)
      e   == ETABLE_at(ExpIndex(res))
  IN  IF e = OutOfBounds THEN e
      ELSE IF ~(x # 0 /\ y # 0) THEN 0 ELSE e

\* the scalar operation of an elementwise function
Elementwise(fn, a, b) ==
  CASE fn = "xor" -> xor(a, b)
    [] fn = "gf_multiply" -> gf_multiply_at(a, b)

\* a ufunc fn applied elementwise to x and y with broadcasting
Ufunc2(fn, x, y) ==
  LET s == BroadcastShape(x.shape, y.shape)
  IN  IF s = <<-1>> THEN Error("ValueError")
      ELSE IF x.shape = y.shape
      THEN ndarray(s, [k \in DOMAIN x.data |-> Elementwise(fn, x.data[k], y.data[k])])
      ELSE ndarray(s, [k \in 0..(Prod(s) - 1) |->
                         Elementwise(fn, BAt(x, Unravel(s, k)), BAt(y, Unravel(s, k)))])

\* a ufunc called with out=: the inputs must broadcast to out's own shape
Ufunc2Out(fn, x, y, out) ==
  LET r == Ufunc2(fn, x, y)
  IN  IF IsErr(r) THEN r
      ELSE IF ~CanBroadcastTo(r.shape, out.shape)
           THEN Error("ValueError")
           ELSE BroadcastTo(r, out.shape)

\* table[a]: a lookup of every element of a in a 1-d table (a tuple)
Take(table, a) == ndarray(a.shape, [k \in DOMAIN a.data |-> table[a.data[k] + 1]])

\* a[k]: the k-th sub-array along the first axis
Sub(a, k) ==
  IF a.shape = <<>> \/ k >= Head(a.shape) THEN Error("IndexError")
  ELSE LET inner == Prod(Tail(a.shape))
       IN  ndarray(Tail(a.shape), [j \in 0..(inner - 1) |-> a.data[k * inner + j]])

\* a[i, :] of a 2-d array as a 1-d array, and a[:, j] likewise
Column(a, j) ==
  ndarray(<<a.shape[1]>>, [r \in 0..(a.shape[1] - 1) |-> a.data[r * a.shape[2] + j]])

\* a[:, j] = word
SetColumn(a, j, word) ==
  ndarray(a.shape, [k \in DOMAIN a.data |->
                      IF k % a.shape[2] = j THEN word.data[k \div a.shape[2]]
                      ELSE a.data[k]])

\* a[:, lo:hi] of a 2-d array
Columns(a, lo, hi) ==
  ndarray(<<a.shape[1], hi - lo>>,
          [k \in 0..(a.shape[1] * (hi - lo) - 1) |->
             a.data[(k \div (hi - lo)) * a.shape[2] + lo + (k % (hi - lo))]])

\* a[_rows, _cols] with _rows = arange(4)[:, None] and _cols a 4x4 grid:
\* the first two axes are indexed, the others are kept
IndexGrid(a, cols) ==
  IF Len(a.shape) < 2 THEN Error("IndexError")
  ELSE IF a.shape[1] < 4 \/ a.shape[2] < 4 THEN Error("IndexError")
  ELSE LET rest == SubSeq(a.shape, 3, Len(a.shape))
           rs   == <<4, 4>> \o rest
       IN  ndarray(rs, [k \in 0..(Prod(rs) - 1) |->
                          LET idx == Unravel(rs, k)
                          IN  At(a, <<idx[1], cols[idx[1] + 1][idx[2] + 1]>>
                                    \o SubSeq(idx, 3, Len(idx)))])

\* the value of a keyword argument that was not given
None == [none |-> TRUE]

\* ------------------------------------------------- SubBytes and ShiftRows
sub_bytes(state, out) ==
  IF out # None THEN SetAll(out, Take(SBOX, state))
  ELSE Take(SBOX, state)

\* shift_rows with the index grid of inv_shift_rows
shift_rows_Mut(state, out) ==
  LET r == IndexGrid(state, invcolindexer)
  IN  IF IsErr(r) THEN r
      ELSE IF out # None THEN SetAll(out, r)
      ELSE r

shift_rows(state, out) ==
  LET r == IndexGrid(state, colindexer)
  IN  IF IsErr(r) THEN r
      ELSE IF out # None THEN SetAll(out, r)
      ELSE r

\* ------------------------------------------------------------- MixColumns
\* the lookup in ETABLE raises IndexError if one index is out of bounds
gf_multiply(x, y) ==
  LET r == Ufunc2("gf_multiply", x, y)
  IN  IF IsErr(r) THEN r
      ELSE IF \E k \in DOMAIN r.data : r.data[k] = OutOfBounds
      THEN Error("IndexError")
      ELSE r

Xor(x, y) == IF IsErr(x) THEN x ELSE IF IsErr(y) THEN y ELSE Ufunc2("xor", x, y)

GfRow(state, k, pm) ==
  LET row == Sub(state, k)
  IN  IF IsErr(row) THEN row ELSE gf_multiply(row, pm)

_mix_columns(state, out, pm0, pm1, pm2, pm3) ==
  LET r == Xor(Xor(Xor(GfRow(state, 0, pm0), GfRow(state, 1, pm1)),
                   GfRow(state, 2, pm2)),
               GfRow(state, 3, pm3))
  IN  IF IsErr(r) THEN r
      ELSE IF out # None THEN SetAll(out, r)
      ELSE r

\* matrix[[k], :].T: row k of the matrix in place of its column k
pm_Mut(matrix, k) == ndarray(<<4, 1>>, [j \in 0..3 |-> matrix[k + 1][j + 1]])

\* matrix[:, [k]]: column k of a 4x4 matrix as a 4x1 array
pm(matrix, k) == ndarray(<<4, 1>>, [j \in 0..3 |-> matrix[j + 1][k + 1]])

mix_columns(state, out) ==
  _mix_columns(state, out, pm(ax_polynomial, 0), pm(ax_polynomial, 1),
               pm(ax_polynomial, 2), pm(ax_polynomial, 3))

\* inv_mix_columns with the matrix of mix_columns
inv_mix_columns_Mut(state, out) ==
  _mix_columns(state, out, pm(ax_polynomial, 0), pm(ax_polynomial, 1),
               pm(ax_polynomial, 2), pm(ax_polynomial, 3))

inv_mix_columns(state, out) ==
  _mix_columns(state, out, pm(inv_ax_polynomial, 0), pm(inv_ax_polynomial, 1),
               pm(inv_ax_polynomial, 2), pm(inv_ax_polynomial, 3))

\* -------------------------------------------------- the inverse functions
\* inv_shift_rows with the index grid of shift_rows
inv_shift_rows_Mut(state, out) ==
  LET r == IndexGrid(state, colindexer)
  IN  IF IsErr(r) THEN r
      ELSE IF out # None THEN SetAll(out, r)
      ELSE r

inv_shift_rows(state, out) ==
  LET r == IndexGrid(state, invcolindexer)
  IN  IF IsErr(r) THEN r
      ELSE IF out # None THEN SetAll(out, r)
      ELSE r

\* inv_sub_bytes looking up the table of sub_bytes
inv_sub_bytes_Mut(state, out) ==
  IF out # None THEN SetAll(out, Take(SBOX, state))
  ELSE Take(SBOX, state)

inv_sub_bytes(state, out) ==
  IF out # None THEN SetAll(out, Take(INVSBOX, state))
  ELSE Take(INVSBOX, state)

\* ----------------------------------------------------------- key schedule
rot_word(word) == ndarray(<<4>>, [k \in 0..3 |-> word.data[<<1, 2, 3, 0>>[k + 1]]])

sub_word(word) == sub_bytes(word, None)

\* numrounds with ten rounds for a key of five words
numrounds_Mut(nk) ==
  IF nk = 5 THEN [value |-> numrounds_table[4]]
  ELSE IF nk \in DOMAIN numrounds_table THEN [value |-> numrounds_table[nk]]
  ELSE Error("KeyError")

\* _table[nk]: the number as [value |-> Nr], or the KeyError of the lookup
numrounds(nk) ==
  IF nk \in DOMAIN numrounds_table THEN [value |-> numrounds_table[nk]]
  ELSE Error("KeyError")

\* rcon with the rows of the table read from their last byte to their first
rcon_Mut(j) ==
  IF j < 0 \/ j >= Len(RCON) THEN Error("IndexError")
  ELSE IF RCON[j + 1][1] = NaN THEN Error("TypeError")
  ELSE array([k \in 1..4 |-> RCON[j + 1][5 - k]])

\* RCON[j] as an operand of xor: the placeholder row is an array of floats,
\* which bitwise_xor rejects
rcon(j) ==
  IF j < 0 \/ j >= Len(RCON) THEN Error("IndexError")
  ELSE IF RCON[j + 1][1] = NaN THEN Error("TypeError")
  ELSE array(RCON[j + 1])

\* np.empty(shape, dtype=uint8): memory that holds whatever was there.  A
\* byte nobody has written yet is Uninit; reading it gives a byte g that the
\* program does not control.
Uninit == -2

empty(shape) == ndarray(shape, [k \in 0..(Prod(shape) - 1) |-> Uninit])

Read(a, g) == ndarray(a.shape, [k \in DOMAIN a.data |->
                                 IF a.data[k] = Uninit THEN g ELSE a.data[k]])

\* expand_word with the extra sub_word taken for Nk >= 6
expand_word_Mut(w, i, nk, g) ==
  LET temp == Read(Column(w, i - 1), g)
      t2   == IF i % nk = 0
              THEN Xor(sub_word(rot_word(temp)), rcon(i \div nk))
              ELSE IF nk >= 6 /\ i % nk = 4
              THEN sub_word(temp)
              ELSE temp
      word == Xor(Read(Column(w, i - nk), g), t2)
  IN  IF IsErr(word) THEN word ELSE SetColumn(w, i, word)

\* the index int(i / nk) - 1, for a table of round constants without a
\* placeholder row
RconIndex_Mut(i, nk) == (i \div nk) - 1

\* int(i / nk), the index into RCON in iteration i
RconIndex(i, nk) == i \div nk

\* what iteration i of the loop does to temp before the last xor, with the
\* index into RCON if it reads RCON: the arm of `if i % nk == 0: ... elif
\* nk > 6 and i % nk == 4: ...` that runs
Branch(i, nk) ==
  IF i % nk = 0 THEN <<"rcon", i, RconIndex(i, nk)>>
  ELSE IF nk > 6 /\ i % nk = 4 THEN <<"sub_word", i>>
  ELSE <<"temp", i>>

\* one pass of the loop of expand_key: the schedule with word i written
expand_word(w, i, nk, g) ==
  LET temp == Read(Column(w, i - 1), g)
      t2   == CASE Branch(i, nk)[1] = "rcon"
                     -> Xor(sub_word(rot_word(temp)), rcon(Branch(i, nk)[3]))
                [] Branch(i, nk)[1] = "sub_word" -> sub_word(temp)
                [] OTHER -> temp
      word == Xor(Read(Column(w, i - nk), g), t2)
  IN  IF IsErr(word) THEN word ELSE SetColumn(w, i, word)

\* the place in the list np.split(exkeys, exkeys.shape[1] / NB, axis=1) that
\* the index r names; r < 0 counts from the end
KeyNumber(exkeys, r) ==
  LET n == exkeys.shape[2] \div NB
  IN  IF r < 0 THEN n + r ELSE r

\* np.split(exkeys, exkeys.shape[1] / NB, axis=1)[r]
RoundKey(exkeys, r) ==
  LET j == KeyNumber(exkeys, r)
  IN  Columns(exkeys, NB * j, NB * j + NB)

\* ---------------------------------------------------------------- helpers
HexDigits == <<"0", "1", "2", "3", "4", "5", "6", "7", "8", "9",
               "a", "b", "c", "d", "e", "f">>

HexDigitsUpper == <<"0", "1", "2", "3", "4", "5", "6", "7", "8", "9",
                    "A", "B", "C", "D", "E", "F">>

IsHexDigit(c) == \E v \in 1..16 : HexDigits[v] = c \/ HexDigitsUpper[v] = c

HexVal(c) == (CHOOSE v \in 1..16 : HexDigits[v] = c \/ HexDigitsUpper[v] = c) - 1

\* array(bytearray.fromhex(s), dtype=uint8): s is a tuple of characters;
\* blanks are skipped
fromhex(s) ==
  LET d == SelectSeq(s, LAMBDA c : c # " ")
  IN  IF Len(d) % 2 # 0 \/ \E k \in 1..Len(d) : ~IsHexDigit(d[k])
      THEN Error("ValueError")
      ELSE array([k \in 1..(Len(d) \div 2) |->
                    16 * HexVal(d[2 * k - 1]) + HexVal(d[2 * k])])

\* ReshapeSwap without the swap of the axes: a.reshape(rows, cols)
ReshapeSwap_Mut(a, rows, cols) ==
  IF rows * cols # Size(a) THEN Error("ValueError")
  ELSE ndarray(<<rows, cols>>, a.data)

\* a.reshape(rows, cols).swapaxes(0, 1) of a 1-d array
ReshapeSwap(a, rows, cols) ==
  IF rows * cols # Size(a) THEN Error("ValueError")
  ELSE ndarray(<<cols, rows>>,
               [k \in 0..(Size(a) - 1) |-> a.data[(k % rows) * cols + (k \div rows)]])

hex_to_array(s, ndim) ==
  LET res == fromhex(s)
  IN  IF IsErr(res) THEN res
      ELSE IF ndim = 2 THEN ReshapeSwap(res, Size(res) \div 4, 4)
      ELSE res

\* ------------------------------------------- the FIPS-197 example vectors
\* Appendix B (test_encrypt_small) and Appendix C (test_example_vectors),
\* as the hexadecimal strings the tests give to hex_to_array
PlainB ==
  <<
    "3", "2", "4", "3", "f", "6", "a", "8", "8", "8", "5", "a", "3", "0", "8", "d",
    "3", "1", "3", "1", "9", "8", "a", "2", "e", "0", "3", "7", "0", "7", "3", "4"
  >>

KeyB ==
  <<
    "2", "b", "7", "e", "1", "5", "1", "6", "2", "8", "a", "e", "d", "2", "a", "6",
    "a", "b", "f", "7", "1", "5", "8", "8", "0", "9", "c", "f", "4", "f", "3", "c"
  >>

CipherB ==
  <<
    "3", "9", "2", "5", "8", "4", "1", "d", "0", "2", "d", "c", "0", "9", "f", "b",
    "d", "c", "1", "1", "8", "5", "9", "7", "1", "9", "6", "a", "0", "b", "3", "2"
  >>

PlainC ==
  <<
    "0", "0", "1", "1", "2", "2", "3", "3", "4", "4", "5", "5", "6", "6", "7", "7",
    "8", "8", "9", "9", "a", "a", "b", "b", "c", "c", "d", "d", "e", "e", "f", "f"
  >>

KeyC128 ==
  <<
    "0", "0", "0", "1", "0", "2", "0", "3", "0", "4", "0", "5", "0", "6", "0", "7",
    "0", "8", "0", "9", "0", "a", "0", "b", "0", "c", "0", "d", "0", "e", "0", "f"
  >>

KeyC192 ==
  <<
    "0", "0", "0", "1", "0", "2", "0", "3", "0", "4", "0", "5", "0", "6", "0", "7",
    "0", "8", "0", "9", "0", "a", "0", "b", "0", "c", "0", "d", "0", "e", "0", "f",
    "1", "0", "1", "1", "1", "2", "1", "3", "1", "4", "1", "5", "1", "6", "1", "7"
  >>

KeyC256 ==
  <<
    "0", "0", "0", "1", "0", "2", "0", "3", "0", "4", "0", "5", "0", "6", "0", "7",
    "0", "8", "0", "9", "0", "a", "0", "b", "0", "c", "0", "d", "0", "e", "0", "f",
    "1", "0", "1", "1", "1", "2", "1", "3", "1", "4", "1", "5", "1", "6", "1", "7",
    "1", "8", "1", "9", "1", "a", "1", "b", "1", "c", "1", "d", "1", "e", "1", "f"
  >>

CipherC128 ==
  <<
    "6", "9", "c", "4", "e", "0", "d", "8", "6", "a", "7", "b", "0", "4", "3", "0",
    "d", "8", "c", "d", "b", "7", "8", "0", "7", "0", "b", "4", "c", "5", "5", "a"
  >>

CipherC192 ==
  <<
    "d", "d", "a", "9", "7", "c", "a", "4", "8", "6", "4", "c", "d", "f", "e", "0",
    "6", "e", "a", "f", "7", "0", "a", "0", "e", "c", "0", "d", "7", "1", "9", "1"
  >>

CipherC256 ==
  <<
    "8", "e", "a", "2", "b", "7", "c", "a", "5", "1", "6", "7", "4", "5", "b", "f",
    "e", "a", "f", "c", "4", "9", "9", "0", "4", "b", "4", "9", "6", "0", "8", "9"
  >>

\* Appendix A (test_expand_key): the keys and the schedules they expand to,
\* word after word
key192_hex ==
  <<
    "8", "e", "7", "3", "b", "0", "f", "7", "d", "a", "0", "e", "6", "4", "5", "2",
    "c", "8", "1", "0", "f", "3", "2", "b", "8", "0", "9", "0", "7", "9", "e", "5",
    "6", "2", "f", "8", "e", "a", "d", "2", "5", "2", "2", "c", "6", "b", "7", "b"
  >>

key256_hex ==
  <<
    "6", "0", "3", "d", "e", "b", "1", "0", "1", "5", "c", "a", "7", "1", "b", "e",
    "2", "b", "7", "3", "a", "e", "f", "0", "8", "5", "7", "d", "7", "7", "8", "1",
    "1", "f", "3", "5", "2", "c", "0", "7", "3", "b", "6", "1", "0", "8", "d", "7",
    "2", "d", "9", "8", "1", "0", "a", "3", "0", "9", "1", "4", "d", "f", "f", "4"
  >>

w128_true_hex ==
  <<
    "2", "b", "7", "e", "1", "5", "1", "6", "2", "8", "a", "e", "d", "2", "a", "6",
    "a", "b", "f", "7", "1", "5", "8", "8", "0", "9", "c", "f", "4", "f", "3", "c",
    "a", "0", "f", "a", "f", "e", "1", "7", "8", "8", "5", "4", "2", "c", "b", "1",
    "2", "3", "a", "3", "3", "9", "3", "9", "2", "a", "6", "c", "7", "6", "0", "5",
    "f", "2", "c", "2", "9", "5", "f", "2", "7", "a", "9", "6", "b", "9", "4", "3",
    "5", "9", "3", "5", "8", "0", "7", "a", "7", "3", "5", "9", "f", "6", "7", "f",
    "3", "d", "8", "0", "4", "7", "7", "d", "4", "7", "1", "6", "f", "e", "3", "e",
    "1", "e", "2", "3", "7", "e", "4", "4", "6", "d", "7", "a", "8", "8", "3", "b",
    "e", "f", "4", "4", "a", "5", "4", "1", "a", "8", "5", "2", "5", "b", "7", "f",
    "b", "6", "7", "1", "2", "5", "3", "b", "d", "b", "0", "b", "a", "d", "0", "0",
    "d", "4", "d", "1", "c", "6", "f", "8", "7", "c", "8", "3", "9", "d", "8", "7",
    "c", "a", "f", "2", "b", "8", "b", "c", "1", "1", "f", "9", "1", "5", "b", "c",
    "6", "d", "8", "8", "a", "3", "7", "a", "1", "1", "0", "b", "3", "e", "f", "d",
    "d", "b", "f", "9", "8", "6", "4", "1", "c", "a", "0", "0", "9", "3", "f", "d",
    "4", "e", "5", "4", "f", "7", "0", "e", "5", "f", "5", "f", "c", "9", "f", "3",
    "8", "4", "a", "6", "4", "f", "b", "2", "4", "e", "a", "6", "d", "c", "4", "f",
    "e", "a", "d", "2", "7", "3", "2", "1", "b", "5", "8", "d", "b", "a", "d", "2",
    "3", "1", "2", "b", "f", "5", "6", "0", "7", "f", "8", "d", "2", "9", "2", "f",
    "a", "c", "7", "7", "6", "6", "f", "3", "1", "9", "f", "a", "d", "c", "2", "1",
    "2", "8", "d", "1", "2", "9", "4", "1", "5", "7", "5", "c", "0", "0", "6", "e",
    "d", "0", "1", "4", "f", "9", "a", "8", "c", "9", "e", "e", "2", "5", "8", "9",
    "e", "1", "3", "f", "0", "c", "c", "8", "b", "6", "6", "3", "0", "c", "a", "6"
  >>

w192_true_hex ==
  <<
    "8", "e", "7", "3", "b", "0", "f", "7", "d", "a", "0", "e", "6", "4", "5", "2",
    "c", "8", "1", "0", "f", "3", "2", "b", "8", "0", "9", "0", "7", "9", "e", "5",
    "6", "2", "f", "8", "e", "a", "d", "2", "5", "2", "2", "c", "6", "b", "7", "b",
    "f", "e", "0", "c", "9", "1", "f", "7", "2", "4", "0", "2", "f", "5", "a", "5",
    "e", "c", "1", "2", "0", "6", "8", "e", "6", "c", "8", "2", "7", "f", "6", "b",
    "0", "e", "7", "a", "9", "5", "b", "9", "5", "c", "5", "6", "f", "e", "c", "2",
    "4", "d", "b", "7", "b", "4", "b", "d", "6", "9", "b", "5", "4", "1", "1", "8",
    "8", "5", "a", "7", "4", "7", "9", "6", "e", "9", "2", "5", "3", "8", "f", "d",
    "e", "7", "5", "f", "a", "d", "4", "4", "b", "b", "0", "9", "5", "3", "8", "6",
    "4", "8", "5", "a", "f", "0", "5", "7", "2", "1", "e", "f", "b", "1", "4", "f",
    "a", "4", "4", "8", "f", "6", "d", "9", "4", "d", "6", "d", "c", "e", "2", "4",
    "a", "a", "3", "2", "6", "3", "6", "0", "1", "1", "3", "b", "3", "0", "e", "6",
    "a", "2", "5", "e", "7", "e", "d", "5", "8", "3", "b", "1", "c", "f", "9", "a",
    "2", "7", "f", "9", "3", "9", "4", "3", "6", "a", "9", "4", "f", "7", "6", "7",
    "c", "0", "a", "6", "9", "4", "0", "7", "d", "1", "9", "d", "a", "4", "e", "1",
    "e", "c", "1", "7", "8", "6", "e", "b", "6", "f", "a", "6", "4", "9", "7", "1",
    "4", "8", "5", "f", "7", "0", "3", "2", "2", "2", "c", "b", "8", "7", "5", "5",
    "e", "2", "6", "d", "1", "3", "5", "2", "3", "3", "f", "0", "b", "7", "b", "3",
    "4", "0", "b", "e", "e", "b", "2", "8", "2", "f", "1", "8", "a", "2", "5", "9",
    "6", "7", "4", "7", "d", "2", "6", "b", "4", "5", "8", "c", "5", "5", "3", "e",
    "a", "7", "e", "1", "4", "6", "6", "c", "9", "4", "1", "1", "f", "1", "d", "f",
    "8", "2", "1", "f", "7", "5", "0", "a", "a", "d", "0", "7", "d", "7", "5", "3",
    "c", "a", "4", "0", "0", "5", "3", "8", "8", "f", "c", "c", "5", "0", "0", "6",
    "2", "8", "2", "d", "1", "6", "6", "a", "b", "c", "3", "c", "e", "7", "b", "5",
    "e", "9", "8", "b", "a", "0", "6", "f", "4", "4", "8", "c", "7", "7", "3", "c",
    "8", "e", "c", "c", "7", "2", "0", "4", "0", "1", "0", "0", "2", "2", "0", "2"
  >>

w256_true_hex ==
  <<
    "6", "0", "3", "d", "e", "b", "1", "0", "1", "5", "c", "a", "7", "1", "b", "e",
    "2", "b", "7", "3", "a", "e", "f", "0", "8", "5", "7", "d", "7", "7", "8", "1",
    "1", "f", "3", "5", "2", "c", "0", "7", "3", "b", "6", "1", "0", "8", "d", "7",
    "2", "d", "9", "8", "1", "0", "a", "3", "0", "9", "1", "4", "d", "f", "f", "4",
    "9", "b", "a", "3", "5", "4", "1", "1", "8", "e", "6", "9", "2", "5", "a", "f",
    "a", "5", "1", "a", "8", "b", "5", "f", "2", "0", "6", "7", "f", "c", "d", "e",
    "a", "8", "b", "0", "9", "c", "1", "a", "9", "3", "d", "1", "9", "4", "c", "d",
    "b", "e", "4", "9", "8", "4", "6", "e", "b", "7", "5", "d", "5", "b", "9", "a",
    "d", "5", "9", "a", "e", "c", "b", "8", "5", "b", "f", "3", "c", "9", "1", "7",
    "f", "e", "e", "9", "4", "2", "4", "8", "d", "e", "8", "e", "b", "e", "9", "6",
    "b", "5", "a", "9", "3", "2", "8", "a", "2", "6", "7", "8", "a", "6", "4", "7",
    "9", "8", "3", "1", "2", "2", "2", "9", "2", "f", "6", "c", "7", "9", "b", "3",
    "8", "1", "2", "c", "8", "1", "a", "d", "d", "a", "d", "f", "4", "8", "b", "a",
    "2", "4", "3", "6", "0", "a", "f", "2", "f", "a", "b", "8", "b", "4", "6", "4",
    "9", "8", "c", "5", "b", "f", "c", "9", "b", "e", "b", "d", "1", "9", "8", "e",
    "2", "6", "8", "c", "3", "b", "a", "7", "0", "9", "e", "0", "4", "2", "1", "4",
    "6", "8", "0", "0", "7", "b", "a", "c", "b", "2", "d", "f", "3", "3", "1", "6",
    "9", "6", "e", "9", "3", "9", "e", "4", "6", "c", "5", "1", "8", "d", "8", "0",
    "c", "8", "1", "4", "e", "2", "0", "4", "7", "6", "a", "9", "f", "b", "8", "a",
    "5", "0", "2", "5", "c", "0", "2", "d", "5", "9", "c", "5", "8", "2", "3", "9",
    "d", "e", "1", "3", "6", "9", "6", "7", "6", "c", "c", "c", "5", "a", "7", "1",
    "f", "a", "2", "5", "6", "3", "9", "5", "9", "6", "7", "4", "e", "e", "1", "5",
    "5", "8", "8", "6", "c", "a", "5", "d", "2", "e", "2", "f", "3", "1", "d", "7",
    "7", "e", "0", "a", "f", "1", "f", "a", "2", "7", "c", "f", "7", "3", "c", "3",
    "7", "4", "9", "c", "4", "7", "a", "b", "1", "8", "5", "0", "1", "d", "d", "a",
    "e", "2", "7", "5", "7", "e", "4", "f", "7", "4", "0", "1", "9", "0", "5", "a",
    "c", "a", "f", "a", "a", "a", "e", "3", "e", "4", "d", "5", "9", "b", "3", "4",
    "9", "a", "d", "f", "6", "a", "c", "e", "b", "d", "1", "0", "1", "9", "0", "d",
    "f", "e", "4", "8", "9", "0", "d", "1", "e", "6", "1", "8", "8", "d", "0", "b",
    "0", "4", "6", "d", "f", "3", "4", "4", "7", "0", "6", "c", "6", "3", "1", "e"
  >>

\* ------------------------------------------------------- the caller's data
\* an array of the given shape with bytes that depend on g
GenArray(shape, g) ==
  ndarray(shape, [k \in 0..(Prod(shape) - 1) |->
                    (89 * g + 151 * k * (g + 1) + 7 * k * k) % 256])

BlockB == hex_to_array(PlainB, 2)

\* blocks with their keys: the example vectors, and generated ones
GoodInputs ==
  {<<BlockB, hex_to_array(KeyB, 2)>>,
   <<hex_to_array(PlainC, 2), hex_to_array(KeyC128, 2)>>,
   <<hex_to_array(PlainC, 2), hex_to_array(KeyC192, 2)>>,
   <<hex_to_array(PlainC, 2), hex_to_array(KeyC256, 2)>>,
   <<BlockB, hex_to_array(key192_hex, 2)>>,
   <<BlockB, hex_to_array(key256_hex, 2)>>}
  \cup {<<GenArray(<<4, 4>>, g), GenArray(<<4, 4 + 2 * (g % 3)>>, 10 * g)>> :
          g \in 1..NumGen}

\* shapes a caller can hand over that are not a 4x4 State
BadBlockShapes ==
  {<<16>>, <<15>>, <<4>>, <<3, 4>>, <<4, 5>>, <<4, 1>>,
   <<1, 4, 4>>, <<2, 4, 4>>, <<4, 4, 4>>, <<5, 4, 4>>, <<4, 4, 2>>}

BadBlocks == {GenArray(sh, 3) : sh \in BadBlockShapes}

\* shapes that are not a 4 x Nk key: every flat length up to 40 bytes, and
\* some two-dimensional ones
BadKeyShapes ==
  {<<n>> : n \in 0..40}
  \cup {<<4, m>> : m \in {1, 2, 3, 5, 7, 9, 10}}
  \cup {<<m, 4>> : m \in {5, 6, 7, 8}}
  \cup {<<1, 17>>, <<2, 9>>, <<3, 6>>, <<17, 1>>, <<5, 5>>, <<2, 2, 5>>}

BadKeys == {GenArray(sh, 5) : sh \in BadKeyShapes}

Inputs ==
  GoodInputs
  \cup (BadBlocks \X {hex_to_array(KeyB, 2)})
  \cup ({GenArray(<<4, 4, 4>>, 3)} \X {hex_to_array(KeyC256, 2)})
  \cup ({BlockB} \X BadKeys)
  \cup ({GenArray(<<2, 4, 4>>, 3)} \X {GenArray(<<17>>, 5), GenArray(<<4, 5>>, 5)})

\* bytes that memory from np.empty may hold
Garbage == {0, 165}

\* the bytes a read of a may find in its places nobody has written: one
\* choice is enough when a has no such place
Unwritten(a) ==
  IF \E k \in DOMAIN a.data : a.data[k] = Uninit THEN Garbage ELSE {0}

\* ------------------------------------------------------------------ state
VARIABLES
  mem,    \* the arrays in memory: the caller's arrays mem.state and mem.key,
          \* mem.input, the caller's own copy of the block as it was built,
          \* and mem.tab, the tables of the module
  fr,     \* fr[s]: the frame of the invocation running in slot s; its field
          \* steps lists the calls it has made on the state array so far:
          \* <<"xor", j>> for an xor with the j-th round key, <<name>> for
          \* the others; its field xsteps lists the passes of the loop of
          \* expand_key: <<"rcon", i, j>> for word i made with RCON[j],
          \* <<"sub_word", i>> and <<"temp", i>> for the other words
  calls,  \* the calls that have ended, in order
  uval,   \* a test's values: uval[1] is its input, uval[n + 1] the array
          \* that the n-th function it called returned
  ufun,   \* the names of the functions the test has called, in order
  sched   \* the threads of the caller: sched.run is the slot whose thread
          \* holds the interpreter, sched.pre the number of times a thread
          \* was suspended inside a call, sched.st2 the array the thread of
          \* slot 2 passes, sched.begun the slots whose call has begun

vars == <<mem, fr, calls, uval, ufun, sched>>

Slots == {1, 2}

Ops == {"encrypt_raw", "decrypt_raw", "expand_key"}

IdleFrame ==
  [pc |-> "idle", op |-> "none", st |-> "none", ky |-> "none",
   nk |-> 0, nr |-> 0, w |-> None, i |-> 0, rnd |-> 0, err |-> "none",
   arg |-> None, exkeys |-> None, steps |-> <<>>, xsteps |-> <<>>]

\* The arrays the module builds when it is imported.  The functions above
\* read them by name; a statement that stores into one of them changes
\* mem.tab.
Tables ==
  [SBOX |-> SBOX, INVSBOX |-> INVSBOX, ETABLE |-> ETABLE, LTABLE |-> LTABLE,
   RCON |-> RCON, ax_polynomial |-> ax_polynomial,
   inv_ax_polynomial |-> inv_ax_polynomial,
   colindexer |-> colindexer, invcolindexer |-> invcolindexer]

\* a caller with one thread
OneThread == [run |-> 1, pre |-> 0, st2 |-> "state", begun |-> {}]

Init ==
  /\ \E in \in Inputs :
       mem = [state |-> in[1], key |-> in[2], input |-> in[1], tab |-> Tables]
  /\ sched = OneThread
  /\ fr = [s \in Slots |-> IdleFrame]
  /\ calls = <<>>
  /\ uval = <<>>
  /\ ufun = <<>>

\* w[:, lo:hi] = value
SetColumns(w, lo, hi, value) ==
  LET r == SetAll(Columns(w, lo, hi), value)
  IN  IF IsErr(r) THEN r
      ELSE ndarray(w.shape, [k \in DOMAIN w.data |->
             LET c == k % w.shape[2]
             IN  IF c >= lo /\ c < hi
                 THEN r.data[(k \div w.shape[2]) * (hi - lo) + (c - lo)]
                 ELSE w.data[k]])

Raised(f, e) == [f EXCEPT !.pc = "raise", !.err = e]

\* A call of op on the array mem[st] begins: encrypt_raw and decrypt_raw read Nk and Nr and enter
\* expand_key, which reads them again, allocates the schedule and copies the
\* key into its first Nk words.
Enter(s, op, st) ==
  /\ LET key == mem.key
         f0  == [IdleFrame EXCEPT !.op = op, !.ky = "key",
                   !.st = IF op = "expand_key" THEN "none" ELSE st,
                   !.arg = IF op = "expand_key" THEN None ELSE mem[st]]
         nk  == Size(key) \div 4
         nr  == numrounds(nk)
     IN  \/ /\ IsErr(nr)
            /\ fr' = [fr EXCEPT ![s] = Raised(f0, nr.err)]
         \/ /\ ~IsErr(nr)
            /\ LET nwords == NB * (nr.value + 1)
                   w0 == empty(<<NB, nwords>>)
                   w  == SetColumns(w0, 0, nk, key)
               IN  fr' = [fr EXCEPT ![s] =
                            IF IsErr(w) THEN Raised(f0, w.err)
                            ELSE [f0 EXCEPT !.pc = "expand", !.nk = nk,
                                    !.nr = nr.value, !.w = w, !.i = nk]]
  /\ UNCHANGED <<mem, calls, uval, ufun>>

\* the one thread of the caller calls op on its arrays
Call(s, op) ==
  /\ \A t \in Slots : fr[t].pc = "idle"
  /\ Len(calls) < MaxCalls
  /\ Enter(s, op, "state")
  /\ UNCHANGED sched

\* `while i < nwords` stopping one word early
LoopTest_Mut(f) == f.i < f.w.shape[2] - 1

\* the test of `while i < nwords`
LoopTest(f) == f.i < f.w.shape[2]

\* ExpandStep with the round constant combined in place,
\* xor(temp, RCON[int(i / nk)], out=RCON[int(i / nk)])
ExpandStep_Mut(s) ==
  LET f == fr[s]
  IN  /\ f.pc = "expand"
      /\ LoopTest(f)
      /\ \E g \in Unwritten(Column(f.w, f.i - 1)) \cup Unwritten(Column(f.w, f.i - f.nk)) :
           LET w == expand_word(f.w, f.i, f.nk, g)
               t == Xor(sub_word(rot_word(Read(Column(f.w, f.i - 1), g))),
                        rcon(f.i \div f.nk))
           IN  /\ fr' = [fr EXCEPT ![s] =
                           IF IsErr(w)
                           THEN [Raised(f, w.err) EXCEPT
                                   !.xsteps = Append(@, Branch(f.i, f.nk))]
                           ELSE [f EXCEPT !.w = w, !.i = f.i + 1,
                                   !.xsteps = Append(@, Branch(f.i, f.nk))]]
               /\ mem' = IF f.i % f.nk = 0 /\ ~IsErr(t)
                         THEN [mem EXCEPT !.tab.RCON[(f.i \div f.nk) + 1] =
                                 [k \in 1..4 |-> t.data[k - 1]]]
                         ELSE mem
      /\ UNCHANGED <<calls, uval, ufun, sched>>

\* One pass of `while i < nwords` in expand_key, noted in f.xsteps.
ExpandStep(s) ==
  LET f == fr[s]
  IN  /\ f.pc = "expand"
      /\ LoopTest(f)
      /\ \E g \in Unwritten(Column(f.w, f.i - 1)) \cup Unwritten(Column(f.w, f.i - f.nk)) :
           LET w == expand_word(f.w, f.i, f.nk, g)
           IN  fr' = [fr EXCEPT ![s] =
                        IF IsErr(w)
                        THEN [Raised(f, w.err) EXCEPT
                                !.xsteps = Append(@, Branch(f.i, f.nk))]
                        ELSE [f EXCEPT !.w = w, !.i = f.i + 1,
                                !.xsteps = Append(@, Branch(f.i, f.nk))]]
      /\ UNCHANGED <<mem, calls, uval, ufun, sched>>

\* The loop of expand_key ends and the schedule is returned: to the caller,
\* or to encrypt_raw or decrypt_raw, which split it into round keys.  Whoever
\* reads the schedule from now on finds, in a word that was never written,
\* the bytes the memory held.
ExpandReturn(s) ==
  LET f == fr[s]
  IN  /\ f.pc = "expand"
      /\ ~LoopTest(f)
      /\ \E g \in Unwritten(f.w) :
           fr' = [fr EXCEPT ![s] = [f EXCEPT
                    !.w = Read(f.w, g),
                    !.exkeys = Read(f.w, g),
                    !.pc = CASE f.op = "expand_key" -> "return"
                             [] f.op = "encrypt_raw" -> "enc_xor0"
                             [] f.op = "decrypt_raw" -> "dec_xor0"]]
      /\ UNCHANGED <<mem, calls, uval, ufun, sched>>

\* After with the loop of encrypt_raw running over exkeys[1:nr + 1]
After_Mut(f) ==
  CASE f.pc = "enc_xor0"   -> IF 1 < f.nr THEN <<"enc_sub", 1>> ELSE <<"fin_sub", f.rnd>>
    [] f.pc = "enc_sub"    -> <<"enc_shift", f.rnd>>
    [] f.pc = "enc_shift"  -> <<"enc_mix", f.rnd>>
    [] f.pc = "enc_mix"    -> <<"enc_xor", f.rnd>>
    [] f.pc = "enc_xor"    -> IF f.rnd + 1 <= f.nr THEN <<"enc_sub", f.rnd + 1>>
                              ELSE <<"fin_sub", f.rnd>>
    [] f.pc = "fin_sub"    -> <<"fin_shift", f.rnd>>
    [] f.pc = "fin_shift"  -> <<"fin_xor", f.rnd>>
    [] f.pc = "fin_xor"    -> <<"return", f.rnd>>
    [] f.pc = "dec_xor0"   -> <<"dec0_shift", f.rnd>>
    [] f.pc = "dec0_shift" -> <<"dec0_sub", f.rnd>>
    [] f.pc = "dec0_sub"   -> IF f.nr - 1 > 0 THEN <<"dec_xor", f.nr - 1>>
                              ELSE <<"dec_last", f.rnd>>
    [] f.pc = "dec_xor"    -> <<"dec_mix", f.rnd>>
    [] f.pc = "dec_mix"    -> <<"dec_shift", f.rnd>>
    [] f.pc = "dec_shift"  -> <<"dec_sub", f.rnd>>
    [] f.pc = "dec_sub"    -> IF f.rnd - 1 > 0 THEN <<"dec_xor", f.rnd - 1>>
                              ELSE <<"dec_last", f.rnd>>
    [] f.pc = "dec_last"   -> <<"return", f.rnd>>

\* After with the loop of decrypt_raw running over exkeys[nr - 1::-1]
After_Dec(f) ==
  CASE f.pc = "enc_xor0"   -> IF 1 < f.nr THEN <<"enc_sub", 1>> ELSE <<"fin_sub", f.rnd>>
    [] f.pc = "enc_sub"    -> <<"enc_shift", f.rnd>>
    [] f.pc = "enc_shift"  -> <<"enc_mix", f.rnd>>
    [] f.pc = "enc_mix"    -> <<"enc_xor", f.rnd>>
    [] f.pc = "enc_xor"    -> IF f.rnd + 1 < f.nr THEN <<"enc_sub", f.rnd + 1>>
                              ELSE <<"fin_sub", f.rnd>>
    [] f.pc = "fin_sub"    -> <<"fin_shift", f.rnd>>
    [] f.pc = "fin_shift"  -> <<"fin_xor", f.rnd>>
    [] f.pc = "fin_xor"    -> <<"return", f.rnd>>
    [] f.pc = "dec_xor0"   -> <<"dec0_shift", f.rnd>>
    [] f.pc = "dec0_shift" -> <<"dec0_sub", f.rnd>>
    [] f.pc = "dec0_sub"   -> IF f.nr - 1 > 0 THEN <<"dec_xor", f.nr - 1>>
                              ELSE <<"dec_last", f.rnd>>
    [] f.pc = "dec_xor"    -> <<"dec_mix", f.rnd>>
    [] f.pc = "dec_mix"    -> <<"dec_shift", f.rnd>>
    [] f.pc = "dec_shift"  -> <<"dec_sub", f.rnd>>
    [] f.pc = "dec_sub"    -> IF f.rnd - 1 >= 0 THEN <<"dec_xor", f.rnd - 1>>
                              ELSE <<"dec_last", f.rnd>>
    [] f.pc = "dec_last"   -> <<"return", f.rnd>>

\* the step after pc, as <<pc, rnd>>: rnd is the index of the round key of
\* the pass of the loop (`for ek in exkeys[1:nr]`, `exkeys[nr - 1:0:-1]`)
After(f) ==
  CASE f.pc = "enc_xor0"   -> IF 1 < f.nr THEN <<"enc_sub", 1>> ELSE <<"fin_sub", f.rnd>>
    [] f.pc = "enc_sub"    -> <<"enc_shift", f.rnd>>
    [] f.pc = "enc_shift"  -> <<"enc_mix", f.rnd>>
    [] f.pc = "enc_mix"    -> <<"enc_xor", f.rnd>>
    [] f.pc = "enc_xor"    -> IF f.rnd + 1 < f.nr THEN <<"enc_sub", f.rnd + 1>>
                              ELSE <<"fin_sub", f.rnd>>
    [] f.pc = "fin_sub"    -> <<"fin_shift", f.rnd>>
    [] f.pc = "fin_shift"  -> <<"fin_xor", f.rnd>>
    [] f.pc = "fin_xor"    -> <<"return", f.rnd>>
    [] f.pc = "dec_xor0"   -> <<"dec0_shift", f.rnd>>
    [] f.pc = "dec0_shift" -> <<"dec0_sub", f.rnd>>
    [] f.pc = "dec0_sub"   -> IF f.nr - 1 > 0 THEN <<"dec_xor", f.nr - 1>>
                              ELSE <<"dec_last", f.rnd>>
    [] f.pc = "dec_xor"    -> <<"dec_mix", f.rnd>>
    [] f.pc = "dec_mix"    -> <<"dec_shift", f.rnd>>
    [] f.pc = "dec_shift"  -> <<"dec_sub", f.rnd>>
    [] f.pc = "dec_sub"    -> IF f.rnd - 1 > 0 THEN <<"dec_xor", f.rnd - 1>>
                              ELSE <<"dec_last", f.rnd>>
    [] f.pc = "dec_last"   -> <<"return", f.rnd>>

\* Advance for functions that work in one buffer of the module, whatever
\* array the caller passed
Advance_Mut(s, e, r) ==
  LET f == fr[s]
  IN  IF IsErr(r)
      THEN /\ fr' = [fr EXCEPT ![s] = Raised(f, r.err)]
           /\ UNCHANGED mem
      ELSE /\ fr' = [fr EXCEPT ![s] = [f EXCEPT !.pc = After(f)[1], !.rnd = After(f)[2],
                                                !.steps = Append(@, e)]]
           /\ mem' = [mem EXCEPT !.state = r]

\* Advance for functions that store what a statement produced in the key
\* array, as xor(state, key, out=key) would
Advance_Key(s, e, r) ==
  LET f == fr[s]
  IN  IF IsErr(r)
      THEN /\ fr' = [fr EXCEPT ![s] = Raised(f, r.err)]
           /\ UNCHANGED mem
      ELSE /\ fr' = [fr EXCEPT ![s] = [f EXCEPT !.pc = After(f)[1], !.rnd = After(f)[2],
                                                !.steps = Append(@, e)]]
           /\ mem' = [mem EXCEPT ![f.ky] = r]

\* the statement at pc, a call e, has produced r: the state array holds r,
\* the call is noted in f.steps and the invocation moves on; or r is an
\* exception, which leaves the array alone
Advance(s, e, r) ==
  LET f == fr[s]
  IN  IF IsErr(r)
      THEN /\ fr' = [fr EXCEPT ![s] = Raised(f, r.err)]
           /\ UNCHANGED mem
      ELSE /\ fr' = [fr EXCEPT ![s] = [f EXCEPT !.pc = After(f)[1], !.rnd = After(f)[2],
                                                !.steps = Append(@, e)]]
           /\ mem' = [mem EXCEPT ![f.st] = r]

\* KeyIndex with the last xor of encrypt_raw using the round key of the
\* loop's last pass again
KeyIndex_Mut(f) ==
  CASE f.pc = "enc_xor0" -> 0
    [] f.pc = "enc_xor"  -> f.rnd
    [] f.pc = "fin_xor"  -> f.rnd
    [] f.pc = "dec_xor0" -> -1
    [] f.pc = "dec_xor"  -> f.rnd
    [] f.pc = "dec_last" -> 0

\* KeyIndex with the last xor of encrypt_raw choosing its round key by the
\* first byte of the key
KeyIndex_Data(f) ==
  CASE f.pc = "enc_xor0" -> 0
    [] f.pc = "enc_xor"  -> f.rnd
    [] f.pc = "fin_xor"  -> IF f.w.data[0] % 2 = 0 THEN -1 ELSE f.rnd
    [] f.pc = "dec_xor0" -> -1
    [] f.pc = "dec_xor"  -> f.rnd
    [] f.pc = "dec_last" -> 0

\* the index into exkeys of the round key the xor at pc uses
KeyIndex(f) ==
  CASE f.pc = "enc_xor0" -> 0
    [] f.pc = "enc_xor"  -> f.rnd
    [] f.pc = "fin_xor"  -> -1
    [] f.pc = "dec_xor0" -> -1
    [] f.pc = "dec_xor"  -> f.rnd
    [] f.pc = "dec_last" -> 0

\* xor(state, ek, out=state)
AddRoundKey(s) ==
  LET f == fr[s]
  IN  /\ f.pc \in {"enc_xor0", "enc_xor", "fin_xor", "dec_xor0", "dec_xor", "dec_last"}
      /\ Advance(s, <<"xor", KeyNumber(f.w, KeyIndex(f))>>,
                 Ufunc2Out("xor", mem[f.st], RoundKey(f.w, KeyIndex(f)), mem[f.st]))
      /\ UNCHANGED <<calls, uval, ufun, sched>>

\* sub_bytes(state, out=state)
SubBytes(s) ==
  LET f == fr[s]
  IN  /\ f.pc \in {"enc_sub", "fin_sub"}
      /\ Advance(s, <<"sub_bytes">>, sub_bytes(mem[f.st], mem[f.st]))
      /\ UNCHANGED <<calls, uval, ufun, sched>>

\* shift_rows(state, out=state)
ShiftRows(s) ==
  LET f == fr[s]
  IN  /\ f.pc \in {"enc_shift", "fin_shift"}
      /\ Advance(s, <<"shift_rows">>, shift_rows(mem[f.st], mem[f.st]))
      /\ UNCHANGED <<calls, uval, ufun, sched>>

\* mix_columns(state, out=state)
MixColumns(s) ==
  LET f == fr[s]
  IN  /\ f.pc = "enc_mix"
      /\ Advance(s, <<"mix_columns">>, mix_columns(mem[f.st], mem[f.st]))
      /\ UNCHANGED <<calls, uval, ufun, sched>>

\* inv_shift_rows(state, out=state)
InvShiftRows(s) ==
  LET f == fr[s]
  IN  /\ f.pc \in {"dec0_shift", "dec_shift"}
      /\ Advance(s, <<"inv_shift_rows">>, inv_shift_rows(mem[f.st], mem[f.st]))
      /\ UNCHANGED <<calls, uval, ufun, sched>>

\* inv_sub_bytes(state, out=state)
InvSubBytes(s) ==
  LET f == fr[s]
  IN  /\ f.pc \in {"dec0_sub", "dec_sub"}
      /\ Advance(s, <<"inv_sub_bytes">>, inv_sub_bytes(mem[f.st], mem[f.st]))
      /\ UNCHANGED <<calls, uval, ufun, sched>>

\* inv_mix_columns(state, out=state)
InvMixColumns(s) ==
  LET f == fr[s]
  IN  /\ f.pc = "dec_mix"
      /\ Advance(s, <<"inv_mix_columns">>, inv_mix_columns(mem[f.st], mem[f.st]))
      /\ UNCHANGED <<calls, uval, ufun, sched>>

\* Return for a function that worked on its own copy of the block: the
\* caller's array holds on return what it held at the call
Return_Mut(s) ==
  LET f == fr[s]
  IN  /\ f.pc = "return"
      /\ mem' = IF f.op = "expand_key" THEN mem ELSE [mem EXCEPT ![f.st] = f.arg]
      /\ calls' = Append(calls,
           [op |-> f.op, arg |-> f.arg, key |-> mem[f.ky], err |-> "none",
            out |-> IF f.op = "expand_key" THEN f.w ELSE mem[f.st],
            inplace |-> FALSE, after |-> mem'.state, w |-> f.exkeys,
            steps |-> f.steps, xsteps |-> f.xsteps])
      /\ fr' = [fr EXCEPT ![s] = IdleFrame]
      /\ UNCHANGED <<uval, ufun, sched>>

\* `return state` (the caller's own array) or `return w` (a new array).  The
\* record of the call keeps what the caller's array holds now (after) and
\* the schedule expand_key returned in the call (w).
Return(s) ==
  LET f == fr[s]
  IN  /\ f.pc = "return"
      /\ calls' = Append(calls,
           [op |-> f.op, arg |-> f.arg, key |-> mem[f.ky], err |-> "none",
            out |-> IF f.op = "expand_key" THEN f.w ELSE mem[f.st],
            inplace |-> f.op # "expand_key", after |-> mem.state,
            w |-> f.exkeys, steps |-> f.steps, xsteps |-> f.xsteps])
      /\ fr' = [fr EXCEPT ![s] = IdleFrame]
      /\ UNCHANGED <<mem, uval, ufun, sched>>

\* the exception leaves the call: nothing is returned
Raise(s) ==
  LET f == fr[s]
  IN  /\ f.pc = "raise"
      /\ calls' = Append(calls,
           [op |-> f.op, arg |-> f.arg, key |-> mem[f.ky], err |-> f.err,
            out |-> None, inplace |-> FALSE, after |-> mem.state,
            w |-> f.exkeys, steps |-> f.steps, xsteps |-> f.xsteps])
      /\ fr' = [fr EXCEPT ![s] = IdleFrame]
      /\ UNCHANGED <<mem, uval, ufun, sched>>

\* Between two calls the caller puts the block it built back into its array.
Restore ==
  /\ \A t \in Slots : fr[t].pc = "idle"
  /\ Len(calls) < MaxCalls
  /\ mem.state # mem.input
  /\ mem' = [mem EXCEPT !.state = mem.input]
  /\ UNCHANGED <<fr, calls, uval, ufun, sched>>

Next ==
  \/ Restore
  \/ \E s \in {1} :
    \/ \E op \in Ops : Call(s, op)
    \/ ExpandStep(s)
    \/ ExpandReturn(s)
    \/ AddRoundKey(s)
    \/ SubBytes(s)
    \/ ShiftRows(s)
    \/ MixColumns(s)
    \/ InvShiftRows(s)
    \/ InvSubBytes(s)
    \/ InvMixColumns(s)
    \/ Return(s)
    \/ Raise(s)

Spec == Init /\ [][Next]_vars

\* ---------------------------------------------- the functions on their own
\* A test calls the transformations one after the other without out=, each
\* on the array the one before returned, starting from a block it built.
UnitBlock(n) ==
  ndarray(<<4, 4>>, [k \in 0..15 |-> ((16 * n + k) * 7 + 3) % 256])

\* sixteen blocks that hold every byte value between them
UnitBlocks == {UnitBlock(n) : n \in 0..15}

InitUnit ==
  /\ \E b \in UnitBlocks : uval = <<b>>
  /\ ufun = <<>>
  /\ mem = [state |-> None, key |-> None, input |-> None]
  /\ fr = [s \in Slots |-> IdleFrame]
  /\ calls = <<>>
  /\ sched = OneThread

\* the test has called name and got r
Applied(name, r) ==
  /\ Len(ufun) < MaxApply
  /\ ~IsErr(r)
  /\ uval' = Append(uval, r)
  /\ ufun' = Append(ufun, name)
  /\ UNCHANGED <<mem, fr, calls, sched>>

Apply_sub_bytes == Applied("sub_bytes", sub_bytes(uval[Len(uval)], None))

Apply_inv_sub_bytes == Applied("inv_sub_bytes", inv_sub_bytes(uval[Len(uval)], None))

Apply_shift_rows == Applied("shift_rows", shift_rows(uval[Len(uval)], None))

Apply_inv_shift_rows == Applied("inv_shift_rows", inv_shift_rows(uval[Len(uval)], None))

Apply_mix_columns == Applied("mix_columns", mix_columns(uval[Len(uval)], None))

Apply_inv_mix_columns == Applied("inv_mix_columns", inv_mix_columns(uval[Len(uval)], None))

NextUnit ==
  \/ Apply_sub_bytes
  \/ Apply_inv_sub_bytes
  \/ Apply_shift_rows
  \/ Apply_inv_shift_rows
  \/ Apply_mix_columns
  \/ Apply_inv_mix_columns

SpecUnit == InitUnit /\ [][NextUnit]_vars

\* ------------------------------------------------- gf_multiply on its own
\* A caller holds two arrays of sixteen bytes, x as a column and y as a row,
\* and multiplies them with gf_multiply, one way and the other, and x with
\* an array of zeros and with one of ones.  uval is <<x, y>> followed by what the calls
\* returned, ufun names the calls.
Chunk(shape, n) == ndarray(shape, [k \in 0..15 |-> 16 * n + k])

Filled(shape, b) == ndarray(shape, [k \in 0..(Prod(shape) - 1) |-> b])

InitGf ==
  /\ \E n, m \in 0..15 : uval = <<Chunk(<<16, 1>>, n), Chunk(<<16>>, m)>>
  /\ ufun = <<>>
  /\ mem = [state |-> None, key |-> None, input |-> None]
  /\ fr = [s \in Slots |-> IdleFrame]
  /\ calls = <<>>
  /\ sched = OneThread

\* the caller has called gf_multiply(a, b), which the list calls name
Mul(name, a, b) ==
  /\ Len(ufun) < MaxMul
  /\ uval' = Append(uval, gf_multiply(a, b))
  /\ ufun' = Append(ufun, name)
  /\ UNCHANGED <<mem, fr, calls, sched>>

Mul_xy == Mul("x*y", uval[1], uval[2])

Mul_yx == Mul("y*x", uval[2], uval[1])

Mul_x0 == Mul("x*0", uval[1], Filled(uval[1].shape, 0))

Mul_x1 == Mul("x*1", uval[1], Filled(uval[1].shape, 1))

NextGf ==
  \/ Mul_xy
  \/ Mul_yx
  \/ Mul_x0
  \/ Mul_x1

SpecGf == InitGf /\ [][NextGf]_vars

\* ------------------------------------------------ the hexadecimal helpers
\* "{:02x}".format(b)
Format02x(b) == <<HexDigits[(b \div 16) + 1], HexDigits[(b % 16) + 1]>>

RECURSIVE Join(_, _)
\* sep.join(parts)
Join(sep, parts) ==
  IF parts = <<>> THEN <<>>
  ELSE IF Len(parts) = 1 THEN parts[1]
  ELSE LET h == Len(parts) \div 2
       IN  Join(sep, SubSeq(parts, 1, h)) \o sep
             \o Join(sep, SubSeq(parts, h + 1, Len(parts)))

\* arr.swapaxes(0, 1).flat, as a tuple
SwapFlat(arr) ==
  LET s == arr.shape
      t == <<s[2], s[1]>> \o SubSeq(s, 3, Len(s))
  IN  [k \in 1..Size(arr) |->
         LET idx == Unravel(t, k - 1)
         IN  At(arr, <<idx[2], idx[1]>> \o SubSeq(idx, 3, Len(idx)))]

array_to_hex(arr, sep) ==
  IF Len(arr.shape) = 1
  THEN Join(sep, [k \in 1..Size(arr) |-> Format02x(arr.data[k - 1])])
  ELSE IF Len(arr.shape) = 0 THEN Error("AxisError")
  ELSE Join(sep, [k \in 1..Size(arr) |-> Format02x(SwapFlat(arr)[k])])

\* A caller turns a hexadecimal text into an array with hex_to_array, the
\* array into a text with array_to_hex, and so on.  uval is the text it
\* starts from followed by what the calls returned, ufun names the calls.
\* The sixteen bytes from 16 * n on as a text: lower case with blanks between
\* the bytes, or upper case without
ChunkText(n, upper) ==
  IF upper
  THEN Join(<<>>, [k \in 1..16 |->
                     <<HexDigitsUpper[n + 1], HexDigitsUpper[k]>>])
  ELSE Join(<<" ">>, [k \in 1..16 |-> Format02x(16 * n + k - 1)])

\* the texts test_array_to_hex starts from
HexTestWord == <<"2", "b", "7", "e", "1", "5", "1", "6">>

HexTestBlock ==
  <<
    "e", "0", " ", "c", "8", " ", "d", "9", " ", "8", "5", " ", "9", "2", " ", "6", "3", " ", "b", "1", " ", "b", "8", " ",
    "7", "f", " ", "6", "3", " ", "3", "5", " ", "b", "e", " ", "e", "8", " ", "c", "0", " ", "5", "0", " ", "0", "1"
  >>

HexInputs ==
  {ChunkText(n, up) : n \in 0..15, up \in BOOLEAN}
  \cup {PlainB, KeyB, PlainC, KeyC192, KeyC256, w128_true_hex}
  \cup {HexTestWord, HexTestBlock}

InitHex ==
  /\ \E s \in HexInputs : uval = <<s>>
  /\ ufun = <<>>
  /\ mem = [state |-> None, key |-> None, input |-> None]
  /\ fr = [s \in Slots |-> IdleFrame]
  /\ calls = <<>>
  /\ sched = OneThread

\* the value the caller holds last is a text
IsText == IF ufun = <<>> THEN TRUE ELSE ufun[Len(ufun)] = "array_to_hex"

\* hex_to_array(s, ndim) of the text held last
Hex_to_array(ndim) ==
  /\ IsText
  /\ Len(ufun) < MaxHex
  /\ LET r == hex_to_array(uval[Len(uval)], ndim)
     IN  /\ ~IsErr(r)
         /\ uval' = Append(uval, r)
  /\ ufun' = Append(ufun, IF ndim = 2 THEN "hex_to_array" ELSE "hex_to_array_1d")
  /\ UNCHANGED <<mem, fr, calls, sched>>

\* array_to_hex(arr) of the array held last
Array_to_hex ==
  /\ ~IsText
  /\ Len(ufun) < MaxHex
  /\ uval' = Append(uval, array_to_hex(uval[Len(uval)], <<" ">>))
  /\ ufun' = Append(ufun, "array_to_hex")
  /\ UNCHANGED <<mem, fr, calls, sched>>

NextHex ==
  \/ \E ndim \in {1, 2} : Hex_to_array(ndim)
  \/ Array_to_hex

SpecHex == InitHex /\ [][NextHex]_vars

\* ------------------------------------------------ two threads of one caller
\* Two threads of the caller call encrypt_raw or decrypt_raw at the same
\* time, each once.  The interpreter runs one thread at a time and may take
\* it from a thread between any two statements.  The thread of slot 1 passes
\* mem.state; the thread of slot 2 passes the same array or mem.state2, an
\* array of its own that holds the same block.
ConcInputs ==
  {<<BlockB, hex_to_array(KeyB, 2)>>, <<BlockB, GenArray(<<20>>, 5)>>}

InitConc ==
  /\ \E in \in ConcInputs :
       mem = [state |-> in[1], state2 |-> in[1], key |-> in[2], input |-> in[1],
              tab |-> Tables]
  /\ \E s \in Slots : \E st2 \in {"state", "state2"} :
       sched = [run |-> s, pre |-> 0, st2 |-> st2, begun |-> {}]
  /\ fr = [s \in Slots |-> IdleFrame]
  /\ calls = <<>>
  /\ uval = <<>>
  /\ ufun = <<>>

\* the array the thread of slot s passes
ArrayOf(s) == IF s = 1 THEN "state" ELSE sched.st2

\* the two threads pass one and the same array
SameArray == sched.st2 = "state"

\* The thread of slot s calls op, on the array as the caller built it.
Start(s, op) ==
  /\ s \notin sched.begun
  /\ mem[ArrayOf(s)] = mem.input
  /\ Enter(s, op, ArrayOf(s))
  /\ sched' = [sched EXCEPT !.begun = @ \cup {s}]

\* The interpreter passes from the running thread to the other one.  Taking
\* it from a thread that is inside its call suspends the call; with both
\* threads on one array the suspensions are counted and bounded.
Switch ==
  LET s == sched.run
      o == 3 - s
      inside == fr[s].pc # "idle"
  IN  /\ IF inside /\ SameArray THEN sched.pre < MaxPreempt ELSE TRUE
      /\ IF fr[o].pc = "idle" THEN o \notin sched.begun ELSE TRUE
      /\ sched' = [sched EXCEPT !.run = o,
                     !.pre = IF inside /\ SameArray THEN @ + 1 ELSE @]
      /\ UNCHANGED <<mem, fr, calls, uval, ufun>>

NextConc ==
  \/ Switch
  \/ \E s \in Slots :
    \/ \E op \in Ops \ {"expand_key"} : sched.run = s /\ Start(s, op)
    \/ sched.run = s /\ ExpandStep(s)
    \/ sched.run = s /\ ExpandReturn(s)
    \/ sched.run = s /\ AddRoundKey(s)
    \/ sched.run = s /\ SubBytes(s)
    \/ sched.run = s /\ ShiftRows(s)
    \/ sched.run = s /\ MixColumns(s)
    \/ sched.run = s /\ InvShiftRows(s)
    \/ sched.run = s /\ InvSubBytes(s)
    \/ sched.run = s /\ InvMixColumns(s)
    \/ sched.run = s /\ Return(s)
    \/ sched.run = s /\ Raise(s)

SpecConc == InitConc /\ [][NextConc]_vars

\* ------------------------------------------------------------------ claims
\* the shapes of a 16-, 24- and 32-byte key the way hex_to_array builds it
ValidKeyShapes == {<<4, 4>>, <<4, 6>>, <<4, 8>>}

IsState(a) == a # None /\ a.shape = <<4, 4>>

Ended(j, op) == j \in 1..Len(calls) /\ calls[j].op = op

\* No call is running.  The record of the calls changes only when a call
\* ends, so what holds of it whenever no call is running holds of it always.
Quiet == \A s \in Slots : fr[s].pc = "idle"

\* C1: for every 4x4 State b and every key k of 16, 24 or 32 bytes,
\* encrypt_raw(b, k) succeeds, and decrypt_raw of its result under k succeeds
\* and gives back b byte for byte.
C1_RoundTrip ==
  Quiet => \A j \in 1..Len(calls) :
    (Ended(j, "encrypt_raw") /\ IsState(calls[j].arg)
       /\ calls[j].key.shape \in ValidKeyShapes)
    => /\ calls[j].err = "none"
       /\ (Ended(j + 1, "decrypt_raw") /\ calls[j + 1].arg = calls[j].out)
          => /\ calls[j + 1].err = "none"
             /\ calls[j + 1].out = calls[j].arg

\* a block was encrypted under a 24-byte key, which changed it, and then
\* decrypted
C1_Witness ==
  /\ Ended(1, "encrypt_raw") /\ Ended(2, "decrypt_raw")
  /\ IsState(calls[1].arg) /\ calls[1].key.shape = <<4, 6>>
  /\ calls[1].out # calls[1].arg
  /\ calls[2].arg = calls[1].out
  /\ calls[2].out = calls[1].arg

\* the target array of test_encrypt_small, written column after column
tgt ==
  ndarray(<<4, 4>>, array(<< \h39, \h02, \hdc, \h19,
                             \h25, \hdc, \h11, \h6a,
                             \h84, \h09, \h85, \h0b,
                             \h1d, \hfb, \h97, \h32 >>).data)

\* C2: encrypting plaintext 3243f6a8885a308d313198a2e0370734 under the key
\* 2b7e151628aed2a6abf7158809cf4f3c gives 3925841d02dc09fbdc118597196a0b32,
\* block, key and result read column after column.
C2_EncryptSmall ==
  Quiet =>
  /\ tgt = hex_to_array(CipherB, 2)
  /\ \A j \in 1..Len(calls) :
       (Ended(j, "encrypt_raw") /\ calls[j].arg = hex_to_array(PlainB, 2)
          /\ calls[j].key = hex_to_array(KeyB, 2))
       => calls[j].err = "none" /\ calls[j].out = tgt

C2_Witness ==
  \E j \in 1..Len(calls) :
    /\ Ended(j, "encrypt_raw") /\ calls[j].arg = hex_to_array(PlainB, 2)
    /\ calls[j].key = hex_to_array(KeyB, 2)
    /\ calls[j].out = hex_to_array(CipherB, 2)

\* the call j encrypted plaintext under key
Encrypted(j, plaintext, key) ==
  /\ Ended(j, "encrypt_raw")
  /\ calls[j].arg = hex_to_array(plaintext, 2)
  /\ calls[j].key = hex_to_array(key, 2)

\* C3: encrypting 00112233445566778899aabbccddeeff gives the ciphertext of
\* FIPS-197 Appendix C under each of the keys 00..0f, 00..17 and 00..1f.
C3_ExampleVectors ==
  Quiet => \A j \in 1..Len(calls) :
    /\ Encrypted(j, PlainC, KeyC128)
       => calls[j].err = "none" /\ calls[j].out = hex_to_array(CipherC128, 2)
    /\ Encrypted(j, PlainC, KeyC192)
       => calls[j].err = "none" /\ calls[j].out = hex_to_array(CipherC192, 2)
    /\ Encrypted(j, PlainC, KeyC256)
       => calls[j].err = "none" /\ calls[j].out = hex_to_array(CipherC256, 2)

C3_Witness ==
  \E j \in 1..Len(calls) :
    /\ Encrypted(j, PlainC, KeyC256)
    /\ calls[j].out = hex_to_array(CipherC256, 2)

\* encrypt_raw and decrypt_raw, the two ciphers
Cipher == {"encrypt_raw", "decrypt_raw"}

\* the lengths of an AES key in bytes
ValidKeyLengths == {16, 24, 32}

\* C4: for every key whose length is not 16, 24 or 32 bytes, encrypt_raw and
\* decrypt_raw report an error (the KeyError of numrounds, or the ValueError
\* of copying the key into the schedule) before any computation: no word of
\* the schedule has been computed, no step of the cipher has run, the
\* caller's block is as it was, and no block is returned.
C4_InvalidKeyLength ==
  /\ \A s \in Slots :
       (fr[s].op \in Cipher /\ Size(mem[fr[s].ky]) \notin ValidKeyLengths)
       => /\ fr[s].pc = "raise"
          /\ fr[s].err \in {"KeyError", "ValueError"}
          /\ fr[s].w = None /\ fr[s].exkeys = None
          /\ mem.state = fr[s].arg
  /\ Quiet => \A j \in 1..Len(calls) :
       (calls[j].op \in Cipher /\ Size(calls[j].key) \notin ValidKeyLengths)
       => /\ calls[j].err \in {"KeyError", "ValueError"}
          /\ calls[j].out = None
          /\ calls[j].after = calls[j].arg

\* encrypt_raw and then decrypt_raw were called with a key of 17 bytes, which
\* ends in the ValueError, or with one of 20, which ends in the KeyError
C4_Witness ==
  /\ Len(calls) = 2
  /\ calls[1].op = "encrypt_raw" /\ calls[2].op = "decrypt_raw"
  /\ Size(calls[1].key) \in {17, 20}
  /\ calls[1].err = (IF Size(calls[1].key) = 20 THEN "KeyError" ELSE "ValueError")
  /\ calls[2].err = calls[1].err
  /\ calls[2].out = None

\* C5: for every block that is not a 4x4 State of 16 bytes, encrypt_raw and
\* decrypt_raw report an error and return no block.
C5_InvalidBlockLength ==
  \A j \in 1..Len(calls) :
    (calls[j].op \in Cipher /\ ~IsState(calls[j].arg))
    => calls[j].err # "none" /\ calls[j].out = None

\* C6: when encrypt_raw or decrypt_raw fails on a malformed key or block, the
\* caller's state array holds the bytes it held before the call, and no
\* block is returned.
C6_NoPartialResult ==
  \A j \in 1..Len(calls) :
    (calls[j].op \in Cipher /\ calls[j].err # "none")
    => calls[j].after = calls[j].arg /\ calls[j].out = None

\* C7 as the specification states it: after encrypt_raw or decrypt_raw has
\* returned, the caller's block holds the same bytes as before the call.
C7_CallerBlockUnchanged ==
  \A j \in 1..Len(calls) :
    (calls[j].op \in Cipher /\ calls[j].err = "none")
    => calls[j].after = calls[j].arg

\* C7: encrypt_raw and decrypt_raw are deterministic in the bytes of (block,
\* key): two calls of the same function with equal blocks and equal keys end
\* the same way with equal results.  They transform the caller's array in
\* place: after a call has returned, the caller's array holds the result, and
\* the value returned is that array.
C7_InPlaceDeterministic ==
  Quiet => \A j \in 1..Len(calls) :
    calls[j].op \in Cipher
    => /\ calls[j].err = "none"
          => /\ calls[j].after = calls[j].out
             /\ calls[j].inplace
       /\ \A k \in 1..Len(calls) :
            (calls[k].op = calls[j].op /\ calls[k].arg = calls[j].arg
               /\ calls[k].key = calls[j].key)
            => calls[k].err = calls[j].err /\ calls[k].out = calls[j].out

\* the same block was encrypted twice under the same key: the caller's
\* array held the ciphertext after the first call, and the caller built the
\* block again for the second
C7_Witness ==
  /\ Ended(1, "encrypt_raw") /\ Ended(2, "encrypt_raw")
  /\ calls[1].err = "none" /\ calls[2].err = "none"
  /\ calls[2].arg = calls[1].arg /\ calls[2].key = calls[1].key
  /\ calls[1].after = calls[1].out
  /\ calls[1].out # calls[1].arg
  /\ calls[2].out = calls[1].out

\* word i of a schedule or of a key, as the four bytes <<a0, a1, a2, a3>>
Word(a, i) == [r \in 1..4 |-> a.data[(r - 1) * a.shape[2] + i]]

XorWord(u, v) == [r \in 1..4 |-> xor(u[r], v[r])]

\* SubWord, RotWord and Rcon[j] = <<x^(j-1), 0, 0, 0>> of FIPS-197 5.2
FipsSubWord(u) == [r \in 1..4 |-> SBOX[u[r] + 1]]

FipsRotWord(u) == <<u[2], u[3], u[4], u[1]>>

FipsXtime(b) == IF 2 * b > 255 THEN xor(2 * b - 256, 27) ELSE 2 * b

RECURSIVE FipsRconByte(_)
FipsRconByte(j) == IF j = 1 THEN 1 ELSE FipsXtime(FipsRconByte(j - 1))

FipsRcon(j) == <<FipsRconByte(j), 0, 0, 0>>

FipsTemp(a, i, Nk) ==
  LET temp == Word(a, i - 1)
  IN  IF i % Nk = 0
      THEN XorWord(FipsSubWord(FipsRotWord(temp)), FipsRcon(i \div Nk))
      ELSE IF Nk > 6 /\ i % Nk = 4 THEN FipsSubWord(temp)
      ELSE temp

\* a is the schedule of FIPS-197 for the key of Nk words
FipsSchedule(a, key, Nk) ==
  LET Nr == Nk + 6
  IN  /\ a.shape = <<4, 4 * (Nr + 1)>>
      /\ \A k \in DOMAIN a.data : a.data[k] \in Byte
      /\ \A i \in 0..(Nk - 1) : Word(a, i) = Word(key, i)
      /\ \A i \in Nk..(4 * (Nr + 1) - 1) :
           Word(a, i) = XorWord(Word(a, i - Nk), FipsTemp(a, i, Nk))

\* call j expanded the key of the hexadecimal string key
Expanded(j, key) == Ended(j, "expand_key") /\ calls[j].key = hex_to_array(key, 2)

\* C8: for every key of Nk = 4, 6 or 8 words, expand_key returns 44, 52 or 60
\* words: the first Nk are the key, and every later word i is w[i - Nk] XOR
\* temp, with temp = SubWord(RotWord(w[i-1])) XOR Rcon[i/Nk] when i mod Nk = 0,
\* SubWord(w[i-1]) when Nk > 6 and i mod Nk = 4, and w[i-1] otherwise.  For
\* the three keys of FIPS-197 Appendix A it returns the schedules given there.
C8_ExpandKey ==
  Quiet => \A j \in 1..Len(calls) :
    /\ (Ended(j, "expand_key") /\ calls[j].key.shape \in ValidKeyShapes)
       => /\ calls[j].err = "none"
          /\ calls[j].out.shape[2] =
               (CASE calls[j].key.shape[2] = 4 -> 44
                  [] calls[j].key.shape[2] = 6 -> 52
                  [] calls[j].key.shape[2] = 8 -> 60)
          /\ FipsSchedule(calls[j].out, calls[j].key, calls[j].key.shape[2])
    /\ Expanded(j, KeyB) => calls[j].out = hex_to_array(w128_true_hex, 2)
    /\ Expanded(j, key192_hex) => calls[j].out = hex_to_array(w192_true_hex, 2)
    /\ Expanded(j, key256_hex) => calls[j].out = hex_to_array(w256_true_hex, 2)

\* the keys of 24 and of 32 bytes of Appendix A have been expanded, one
\* after the other or one of them twice
C8_Witness ==
  /\ Len(calls) = 2
  /\ Expanded(1, key192_hex) \/ Expanded(1, key256_hex)
  /\ Expanded(2, key192_hex) \/ Expanded(2, key256_hex)
  /\ calls[1].out.shape[2] \in {52, 60}
  /\ calls[2].out = IF Expanded(2, key192_hex)
                    THEN hex_to_array(w192_true_hex, 2)
                    ELSE hex_to_array(w256_true_hex, 2)

\* C9: any two calls of expand_key with the same key return schedules that
\* are equal in every byte, whether the caller made them or encrypt_raw or
\* decrypt_raw did, and whatever ran before or between them.
C9_ExpandKeyDeterministic ==
  Quiet => \A j, k \in 1..Len(calls) :
    (calls[j].w # None /\ calls[k].w # None /\ calls[j].key = calls[k].key)
    => calls[j].w = calls[k].w

\* encrypt_raw expanded a key, ran its rounds, and the caller then expanded
\* the same key
C9_Witness ==
  /\ Ended(1, "encrypt_raw") /\ Ended(2, "expand_key")
  /\ calls[1].err = "none" /\ calls[2].err = "none"
  /\ calls[1].key = calls[2].key
  /\ calls[2].out = calls[1].w
  /\ calls[1].out # calls[1].arg

\* C10: INVSBOX[SBOX[x]] = x and SBOX[INVSBOX[x]] = x for every byte x, and
\* inv_sub_bytes(sub_bytes(s)) = s for every State s.
C10_SBoxInverse ==
  /\ \A x \in Byte : INVSBOX[SBOX[x + 1] + 1] = x /\ SBOX[INVSBOX[x + 1] + 1] = x
  /\ \A n \in 1..(Len(ufun) - 1) :
       (ufun[n] = "sub_bytes" /\ ufun[n + 1] = "inv_sub_bytes")
       => uval[n + 2] = uval[n]

\* sub_bytes changed a State that another function had returned, and
\* inv_sub_bytes gave that State back
C10_Witness ==
  /\ ufun = <<"mix_columns", "sub_bytes", "inv_sub_bytes">>
  /\ uval[3] # uval[2]
  /\ uval[4] = uval[2]

\* the bytes with one bit set
Bits == {1, 2, 4, 8, 16, 32, 64, 128}

RECURSIVE XorAll(_)
\* the XOR of the bytes of a tuple
XorAll(t) == IF t = <<>> THEN 0 ELSE xor(Head(t), XorAll(Tail(t)))

\* multiplication by the byte a distributes over the bits of the other factor
LinearIn(a) ==
  \A x \in Byte :
    gf_multiply_at(x, a) =
      XorAll([k \in 1..8 |-> IF bit(x, 2 ^ (k - 1)) = 1
                             THEN gf_multiply_at(2 ^ (k - 1), a) ELSE 0])

\* the bytes in the matrices of mix_columns and inv_mix_columns
MatrixBytes ==
  {ax_polynomial[i][j] : i, j \in 1..4} \cup {inv_ax_polynomial[i][j] : i, j \in 1..4}

\* the matrix of inv_mix_columns times the matrix of mix_columns is the
\* identity, on every byte with one bit set
InvMatrixIdentity ==
  \A i, j \in 1..4 : \A e \in Bits :
    XorAll([m \in 1..4 |->
              gf_multiply_at(gf_multiply_at(e, ax_polynomial[m][j]),
                             inv_ax_polynomial[i][m])])
      = (IF i = j THEN e ELSE 0)

\* C11: inv_mix_columns(mix_columns(s)) = s for every 4x4 State s: for every
\* State the functions were called on and, as the two functions multiply by
\* constants and XOR, which is linear in the bits of s, for every other one,
\* the product of their matrices being the identity.
C11_InvMixColumns ==
  /\ \A n \in 1..(Len(ufun) - 1) :
       (ufun[n] = "mix_columns" /\ ufun[n + 1] = "inv_mix_columns")
       => uval[n + 2] = uval[n]
  /\ ufun = <<>>
     => /\ \A a \in MatrixBytes : LinearIn(a)
        /\ InvMatrixIdentity

\* mix_columns changed a State that sub_bytes had returned, and
\* inv_mix_columns gave that State back
C11_Witness ==
  /\ ufun = <<"sub_bytes", "mix_columns", "inv_mix_columns">>
  /\ uval[3] # uval[2]
  /\ uval[4] = uval[2]

\* C12: for all bytes x and y, gf_multiply(x, 0) = 0, gf_multiply(x, 1) = x
\* and gf_multiply(x, y) = gf_multiply(y, x).
C12_GfIdentities ==
  \A n \in 1..Len(ufun) :
    /\ ufun[n] = "x*0" => uval[n + 2] = Filled(uval[1].shape, 0)
    /\ ufun[n] = "x*1" => uval[n + 2] = uval[1]
    /\ \A m \in 1..Len(ufun) :
         (ufun[n] = "x*y" /\ ufun[m] = "y*x") => uval[n + 2] = uval[m + 2]

\* sixteen bytes from 0x50 on were multiplied by sixteen from 0xa0 on, one
\* way and then the other
C12_Witness ==
  /\ ufun = <<"x*y", "y*x">>
  /\ uval[1].data[0] = 80 /\ uval[2].data[0] = 160
  /\ uval[3].shape = <<16, 16>>
  /\ uval[4] = uval[3]
  /\ \A k \in DOMAIN uval[3].data : uval[3].data[k] # 0

RECURSIVE PeasantSteps(_, _, _, _)
\* n more steps of shift-and-XOR multiplication: the product so far is acc,
\* a is the multiplicand shifted so far, b the bits of the multiplier left
PeasantSteps(a, b, acc, n) ==
  IF n = 0 THEN acc
  ELSE PeasantSteps(IF 2 * a > 255 THEN xor(2 * a - 256, 27) ELSE 2 * a,
                    b \div 2,
                    IF b % 2 = 1 THEN xor(acc, a) ELSE acc,
                    n - 1)

Peasant(a, b) == PeasantSteps(a, b, 0, 8)

\* the products of all pairs of bytes by shift-and-XOR multiplication
PeasantTable == [a \in Byte |-> [b \in Byte |-> Peasant(a, b)]]

\* C13: for every pair of bytes (x, y), gf_multiply gives the byte that
\* shift-and-XOR multiplication with the reduction constant 0x1B gives.
C13_GfPeasant ==
  \A n \in 1..Len(ufun) :
    ufun[n] = "x*y"
    => /\ uval[n + 2].shape = <<16, 16>>
       /\ \A i, j \in 0..15 :
            uval[n + 2].data[16 * i + j] = PeasantTable[uval[1].data[i]][uval[2].data[j]]

\* bytes from 0xf0 on were multiplied by bytes from 0xf0 on, where the sum
\* of the two logarithms is above 255
C13_Witness ==
  /\ Len(ufun) >= 1 /\ ufun[1] = "x*y"
  /\ uval[1].data[0] = 240 /\ uval[2].data[0] = 240
  /\ LTABLE[uval[1].data[3] + 1] + LTABLE[uval[2].data[5] + 1] > 255
  /\ uval[3].data[16 * 3 + 5] = Peasant(243, 245)

\* the bytes in0, in1, ... a text stands for, in0 at 0
FlatBytes(text) == fromhex(text).data

\* C14: hex_to_array with ndim=2 maps the bytes in0, in1, ... of a text to an
\* array of four rows whose entry at row r, column c is in(4c+r), a 4x4
\* State for sixteen bytes; array_to_hex reads the array back column after
\* column, so its text stands for the same bytes in the same order, and is
\* the text itself when that was written in lower case with blanks.
C14_HexColumnMajor ==
  \A n \in 1..Len(ufun) :
    ufun[n] = "hex_to_array"
    => LET in == FlatBytes(uval[n])
           N  == Len(SelectSeq(uval[n], LAMBDA ch : ch # " ")) \div 2
           A  == uval[n + 1]
       IN  /\ A.shape = <<4, N \div 4>>
           /\ \A row \in 0..3 : \A col \in 0..(N \div 4 - 1) :
                A.data[row * (N \div 4) + col] = in[4 * col + row]
           /\ (n < Len(ufun) /\ ufun[n + 1] = "array_to_hex")
              => /\ FlatBytes(uval[n + 2]) = in
                 /\ Len(uval[n + 2]) = 3 * N - 1
                 /\ (\E k \in 0..15 : uval[n] = ChunkText(k, FALSE))
                    => uval[n + 2] = uval[n]

\* the text of test_hex_to_array became the State the test expects, and
\* array_to_hex gave the text back
C14_Witness ==
  /\ ufun = <<"hex_to_array", "array_to_hex">>
  /\ uval[1] = ChunkText(0, FALSE)
  /\ uval[2] = ndarray(<<4, 4>>, array(<<0, 4, 8, 12, 1, 5, 9, 13,
                                         2, 6, 10, 14, 3, 7, 11, 15>>).data)
  /\ uval[3] = uval[1]

\* the schedule expand_key builds from key in a call that runs alone
RECURSIVE ExpandAlone(_, _, _)
ExpandAlone(w, i, nk) ==
  IF i < w.shape[2]
  THEN CHOOSE r \in {ExpandAlone(v, i + 1, nk) : v \in {expand_word(w, i, nk, 0)}} : TRUE
  ELSE w

\* what the statement at f.pc makes of the array a
Statement(f, a) ==
  CASE f.pc \in {"enc_xor0", "enc_xor", "fin_xor", "dec_xor0", "dec_xor", "dec_last"}
         -> Ufunc2Out("xor", a, RoundKey(f.w, KeyIndex(f)), a)
    [] f.pc \in {"enc_sub", "fin_sub"} -> sub_bytes(a, a)
    [] f.pc \in {"enc_shift", "fin_shift"} -> shift_rows(a, a)
    [] f.pc = "enc_mix" -> mix_columns(a, a)
    [] f.pc \in {"dec0_shift", "dec_shift"} -> inv_shift_rows(a, a)
    [] f.pc \in {"dec0_sub", "dec_sub"} -> inv_sub_bytes(a, a)
    [] f.pc = "dec_mix" -> inv_mix_columns(a, a)

\* the array a call gives back when its statements run from f.pc to the
\* return with nothing in between
RECURSIVE RunAlone(_, _)
RunAlone(f, a) ==
  IF f.pc = "return" THEN a
  ELSE CHOOSE r \in {RunAlone([f EXCEPT !.pc = After(f)[1], !.rnd = After(f)[2]], b) :
                       b \in {Statement(f, a)}} : TRUE

\* the outcome of op(block, key) when the call runs alone: the schedule it
\* works with and the array it returns, or the exception of numrounds
Alone(op, block, key) ==
  LET nk == Size(key) \div 4
      nr == numrounds(nk)
  IN  IF IsErr(nr) THEN nr
      ELSE LET w == ExpandAlone(SetColumns(empty(<<NB, NB * (nr.value + 1)>>), 0, nk, key),
                                nk, nk)
               f == [IdleFrame EXCEPT !.op = op, !.nk = nk, !.nr = nr.value, !.w = w,
                       !.pc = IF op = "encrypt_raw" THEN "enc_xor0" ELSE "dec_xor0"]
           IN  [w |-> w, out |-> RunAlone(f, block)]

AloneTable == [op \in Cipher |-> [in \in ConcInputs |-> Alone(op, in[1], in[2])]]

\* the call of record r ended as it ends when it runs alone
AsAlone(r) ==
  /\ <<r.arg, r.key>> \in ConcInputs
  /\ LET a == AloneTable[r.op][<<r.arg, r.key>>]
     IN  IF IsErr(a) THEN r.err = a.err /\ r.out = None
         ELSE r.err = "none" /\ r.out = a.out /\ r.w = a.w

\* C15 as stated: whatever arrays the two threads pass, the array they both
\* pass included, and however their statements interleave, each call ends as
\* it ends when it runs alone.
C15_AnyArrays == \A j \in 1..Len(calls) : AsAlone(calls[j])

\* C15: when the two threads pass two arrays (holding the same block or
\* not), then however the statements of the two calls interleave, each call
\* ends as it ends when it runs alone: with the same schedule and the same
\* returned bytes, or with the same exception.  The schedule is an array of
\* the call; the State is the array the caller passed.
C15_OwnArrays == ~SameArray => \A j \in 1..Len(calls) : AsAlone(calls[j])

\* one thread's encrypt_raw has returned the ciphertext while the other
\* thread's decrypt_raw of an array of its own is in the middle of its rounds
C15_Witness ==
  /\ ~SameArray
  /\ Len(calls) = 1
  /\ calls[1].op = "encrypt_raw"
  /\ calls[1].out = tgt
  /\ \E s \in Slots : fr[s].pc = "dec_mix" /\ fr[s].rnd = 5 /\ fr[s].st = "state2"

\* C16: no operation stores into SBOX, INVSBOX, ETABLE, LTABLE, RCON, the
\* MixColumns matrices or the ShiftRows index grids: whatever calls of
\* encrypt_raw, decrypt_raw and expand_key the caller has made on its arrays,
\* ended or under way, returned or raised, the tables hold the values they
\* were built with.
C16_TablesConstant == mem.tab = Tables

\* an encryption and a decryption of the caller's array have both returned
C16_Witness ==
  /\ Len(calls) = 2
  /\ calls[1].op = "encrypt_raw" /\ calls[1].err = "none"
  /\ calls[2].op = "decrypt_raw" /\ calls[2].err = "none"
  /\ mem.tab.RCON = RCON
  /\ mem.tab.ETABLE = ETABLE

\* Nr for a key, by FIPS-197: Nk + 6
Rounds(key) == (Size(key) \div 4) + 6

\* rounds r to nr - 1 of the cipher
RECURSIVE EncryptRounds(_, _)
EncryptRounds(r, nr) ==
  IF r >= nr THEN <<>>
  ELSE << <<"sub_bytes">>, <<"shift_rows">>, <<"mix_columns">>, <<"xor", r>> >>
       \o EncryptRounds(r + 1, nr)

\* the steps of the cipher with nr rounds, in order
EncryptOrder(nr) ==
  << <<"xor", 0>> >> \o EncryptRounds(1, nr)
  \o << <<"sub_bytes">>, <<"shift_rows">>, <<"xor", nr>> >>

IsPrefix(p, q) == Len(p) <= Len(q) /\ \A k \in 1..Len(p) : p[k] = q[k]

\* the round keys the steps use, in the order of their use
KeysUsed(steps) ==
  LET x == SelectSeq(steps, LAMBDA e : e[1] = "xor")
  IN  [k \in 1..Len(x) |-> x[k][2]]

\* how many of the steps are calls of name
Count(steps, name) == Cardinality({k \in 1..Len(steps) : steps[k][1] = name})

\* C17: with Nr the number of rounds for the key, encrypt_raw makes these
\* calls on the state, in this order and no others: xor with round key 0;
\* for r = 1..Nr-1: sub_bytes, shift_rows, mix_columns, xor with round key r;
\* then sub_bytes, shift_rows, xor with round key Nr.  So the round keys
\* 0..Nr are each used once, in increasing order, and mix_columns is called
\* Nr - 1 times.  At every moment of a call, and in a call that raises, the
\* calls made so far are the beginning of that list.
C17_EncryptOrder ==
  /\ \A j \in 1..Len(calls) : calls[j].op = "encrypt_raw" =>
       LET nr == Rounds(calls[j].key)
           st == calls[j].steps
       IN  IF calls[j].err = "none"
           THEN /\ st = EncryptOrder(nr)
                /\ KeysUsed(st) = [k \in 1..(nr + 1) |-> k - 1]
                /\ Count(st, "mix_columns") = nr - 1
           ELSE IsPrefix(st, EncryptOrder(nr))
  /\ \A s \in Slots : fr[s].op = "encrypt_raw" =>
       IsPrefix(fr[s].steps, EncryptOrder(Rounds(mem[fr[s].ky])))

\* an encryption under a 256-bit key has returned after its 56 steps, 13 of
\* them mix_columns
C17_Witness ==
  \E j \in 1..Len(calls) :
    /\ calls[j].op = "encrypt_raw"
    /\ calls[j].err = "none"
    /\ Size(calls[j].key) = 32
    /\ Len(calls[j].steps) = 56
    /\ Count(calls[j].steps, "mix_columns") = 13

\* rounds r down to 1 of the inverse cipher
RECURSIVE DecryptRounds(_)
DecryptRounds(r) ==
  IF r < 1 THEN <<>>
  ELSE << <<"xor", r>>, <<"inv_mix_columns">>, <<"inv_shift_rows">>, <<"inv_sub_bytes">> >>
       \o DecryptRounds(r - 1)

\* the steps of the inverse cipher with nr rounds, in order
DecryptOrder(nr) ==
  << <<"xor", nr>>, <<"inv_shift_rows">>, <<"inv_sub_bytes">> >>
  \o DecryptRounds(nr - 1) \o << <<"xor", 0>> >>

\* the step that undoes step e: xor with the same round key, or the inverse
\* transformation
InverseStep(e) ==
  CASE e[1] = "xor" -> e
    [] e[1] = "sub_bytes" -> <<"inv_sub_bytes">>
    [] e[1] = "shift_rows" -> <<"inv_shift_rows">>
    [] e[1] = "mix_columns" -> <<"inv_mix_columns">>

\* the inverses of the steps, last step first
Reversal(steps) ==
  [k \in 1..Len(steps) |-> InverseStep(steps[Len(steps) + 1 - k])]

\* C18: decrypt_raw works with the schedule that expand_key and encrypt_raw
\* get from the same key, and makes these calls on the state, in this order
\* and no others: xor with round key Nr, inv_shift_rows, inv_sub_bytes; for
\* r = Nr-1 down to 1: xor with round key r, inv_mix_columns, inv_shift_rows,
\* inv_sub_bytes; then xor with round key 0.  That is the list of
\* encrypt_raw read backwards with every transformation replaced by its
\* inverse, and it uses the round keys Nr..0 once each, in decreasing order.
\* At every moment of a call, and in a call that raises, the calls made so
\* far are the beginning of that list.
C18_DecryptOrder ==
  /\ \A j \in 1..Len(calls) : calls[j].op = "decrypt_raw" =>
       LET nr == Rounds(calls[j].key)
           st == calls[j].steps
       IN  IF calls[j].err = "none"
           THEN /\ st = DecryptOrder(nr)
                /\ st = Reversal(EncryptOrder(nr))
                /\ KeysUsed(st) = [k \in 1..(nr + 1) |-> nr + 1 - k]
                /\ \A k \in 1..Len(calls) :
                     (calls[k].err = "none" /\ calls[k].key = calls[j].key)
                     => /\ calls[k].w = calls[j].w
                        /\ calls[k].op = "encrypt_raw"
                           => st = Reversal(calls[k].steps)
           ELSE IsPrefix(st, DecryptOrder(nr))
  /\ \A s \in Slots : fr[s].op = "decrypt_raw" =>
       IsPrefix(fr[s].steps, DecryptOrder(Rounds(mem[fr[s].ky])))

\* a decryption under a 192-bit key has returned after its 48 steps, and
\* before it an encryption under the same key
C18_Witness ==
  /\ Len(calls) = 2
  /\ calls[1].op = "encrypt_raw" /\ calls[1].err = "none"
  /\ calls[2].op = "decrypt_raw" /\ calls[2].err = "none"
  /\ Size(calls[2].key) = 24
  /\ Len(calls[2].steps) = 48
  /\ calls[2].steps[1] = <<"xor", 12>>

\* the place of State[r][c] in the bytes of a 4x4 array
Cell(r, c) == 4 * r + c

\* C19: shift_rows(s)[r][c] = s[r][(c + r) mod 4] and
\* inv_shift_rows(s)[r][c] = s[r][(c - r) mod 4] for every State s, row r and
\* column c, and inv_shift_rows(shift_rows(s)) = s.
C19_ShiftRows ==
  \A n \in 1..Len(ufun) :
    /\ ufun[n] = "shift_rows" =>
         /\ uval[n + 1].shape = <<4, 4>>
         /\ \A r, c \in 0..3 :
              uval[n + 1].data[Cell(r, c)] = uval[n].data[Cell(r, (c + r) % 4)]
    /\ ufun[n] = "inv_shift_rows" =>
         /\ uval[n + 1].shape = <<4, 4>>
         /\ \A r, c \in 0..3 :
              uval[n + 1].data[Cell(r, c)] = uval[n].data[Cell(r, (c + 4 - r) % 4)]
    /\ (n < Len(ufun) /\ ufun[n] = "shift_rows" /\ ufun[n + 1] = "inv_shift_rows")
       => uval[n + 2] = uval[n]

\* shift_rows moved the bytes of a State that sub_bytes had returned, sixteen
\* different bytes, and inv_shift_rows gave that State back
C19_Witness ==
  /\ ufun = <<"sub_bytes", "shift_rows", "inv_shift_rows">>
  /\ Cardinality({uval[2].data[k] : k \in 0..15}) = 16
  /\ uval[3] # uval[2]
  /\ uval[4] = uval[2]

\* the matrices of MixColumns and InvMixColumns in FIPS-197, by rows
MixMatrix ==
  << <<2, 3, 1, 1>>, <<1, 2, 3, 1>>, <<1, 1, 2, 3>>, <<3, 1, 1, 2>> >>

InvMixMatrix ==
  << <<14, 11, 13, 9>>, <<9, 14, 11, 13>>, <<13, 9, 14, 11>>, <<11, 13, 9, 14>> >>

\* row i of the matrix M times column c of the State s over GF(2^8)
MatrixTimes(M, s, i, c) ==
  xor(xor(gf_multiply_at(M[i + 1][1], s.data[Cell(0, c)]),
          gf_multiply_at(M[i + 1][2], s.data[Cell(1, c)])),
      xor(gf_multiply_at(M[i + 1][3], s.data[Cell(2, c)]),
          gf_multiply_at(M[i + 1][4], s.data[Cell(3, c)])))

\* the State s with every column but c set to zero
OnlyColumn(s, c) ==
  ndarray(s.shape, [k \in DOMAIN s.data |-> IF k % 4 = c THEN s.data[k] ELSE 0])

\* C20: mix_columns(s)[i][c] is the XOR over j of
\* gf_multiply(M[i][j], s[j][c]) with M the matrix of rows (02 03 01 01),
\* (01 02 03 01), (01 01 02 03), (03 01 01 02), and inv_mix_columns(s)[i][c]
\* the same with the rows (0e 0b 0d 09), (09 0e 0b 0d), (0d 09 0e 0b),
\* (0b 0d 09 0e).  Column c of the result depends on column c of s only: it
\* is the same when the other columns of s are replaced by zeros.
C20_MixColumnsMatrix ==
  \A n \in {Len(ufun)} \ {0} :
    /\ ufun[n] = "mix_columns" =>
         /\ uval[n + 1].shape = <<4, 4>>
         /\ \A i, c \in 0..3 :
              uval[n + 1].data[Cell(i, c)] = MatrixTimes(MixMatrix, uval[n], i, c)
         /\ \A c \in 0..3 :
              Column(mix_columns(OnlyColumn(uval[n], c), None), c) = Column(uval[n + 1], c)
    /\ ufun[n] = "inv_mix_columns" =>
         /\ uval[n + 1].shape = <<4, 4>>
         /\ \A i, c \in 0..3 :
              uval[n + 1].data[Cell(i, c)] = MatrixTimes(InvMixMatrix, uval[n], i, c)
         /\ \A c \in 0..3 :
              Column(inv_mix_columns(OnlyColumn(uval[n], c), None), c) = Column(uval[n + 1], c)

\* mix_columns and then inv_mix_columns were applied to a State that
\* shift_rows had returned, and each changed it
C20_Witness ==
  /\ ufun = <<"shift_rows", "mix_columns", "inv_mix_columns">>
  /\ uval[3] # uval[2]
  /\ uval[4] # uval[3]
  /\ uval[3].data[Cell(0, 0)] = MatrixTimes(MixMatrix, uval[2], 0, 0)

\* 2 * r XOR 0x11B for a byte r >= 0x80: the XOR takes away bit 8 of 2 * r
\* and combines 0x1B with the rest
TimesX(r) == IF r < 128 THEN 2 * r ELSE xor((2 * r) % 256, 27) + 256 * (((2 * r) \div 256 + 1) % 2)

\* r_1 = 1 and r_j = 2 * r_(j-1), XOR 0x11B from 0x80 on
RECURSIVE RoundConstant(_)
RoundConstant(j) ==
  IF j = 1 THEN 1
  ELSE CHOOSE r \in {TimesX(p) : p \in {RoundConstant(j - 1)}} : TRUE

RoundConstants == [j \in 1..15 |-> RoundConstant(j)]

\* the words XORed with every row of RCON
SampleWords == {Column(UnitBlock(n), c) : n \in 0..15, c \in 0..3}

\* x is the word v with r XORed into its first byte and nothing else changed
FirstByteOnly(x, v, r) ==
  /\ x.shape = <<4>>
  /\ x.data[0] = xor(v.data[0], r)
  /\ \A k \in 1..3 : x.data[k] = v.data[k]

\* C21: for every j in 1..15, RCON[j] is the word {r_j, 0, 0, 0} with
\* r_1 = 1 and r_j = 2 * r_(j-1) when r_(j-1) < 0x80, (2 * r_(j-1)) XOR 0x11B
\* otherwise; every r_j is a byte; and xor of a word with RCON[j] changes
\* its first byte only, by r_j: for the words of sixteen blocks, and for
\* every word of a key schedule that expand_key has just written from
\* sub_word(rot_word(w[i-1])) XOR RCON[i/Nk].
C21_RoundConstants ==
  /\ (Quiet /\ calls = <<>>) =>
       \A j \in 1..15 :
         /\ RoundConstants[j] \in Byte
         /\ mem.tab.RCON[j + 1] = <<RoundConstants[j], 0, 0, 0>>
         /\ \A v \in SampleWords : FirstByteOnly(Xor(v, rcon(j)), v, RoundConstants[j])
  /\ \A s \in Slots :
       (fr[s].pc = "expand" /\ fr[s].i > fr[s].nk /\ (fr[s].i - 1) % fr[s].nk = 0) =>
         LET w == fr[s].w
             i == fr[s].i - 1
         IN  FirstByteOnly(Xor(Column(w, i), Column(w, i - fr[s].nk)),
                           sub_word(rot_word(Column(w, i - 1))),
                           RoundConstants[i \div fr[s].nk])

\* expand_key has just written word 40 of the schedule of a 128-bit key,
\* with RCON[10], whose first byte is 0x36
C21_Witness ==
  /\ fr[1].pc = "expand"
  /\ fr[1].nk = 4
  /\ fr[1].i = 41
  /\ RoundConstants[10] = 54
  /\ Xor(Column(fr[1].w, 40), Column(fr[1].w, 36)).data[0]
       # sub_word(rot_word(Column(fr[1].w, 39))).data[0]

\* the indexes into RCON that the passes xs of the loop read, in order
RconReads(xs) ==
  LET x == SelectSeq(xs, LAMBDA e : e[1] = "rcon")
  IN  [k \in 1..Len(x) |-> x[k][3]]

\* C22: in expand_key, called by the caller or by encrypt_raw or
\* decrypt_raw, every index int(i / Nk) with which RCON is read is at least
\* 1 and at most 10, so the placeholder row 0 is never read and no read
\* falls outside the table; a whole expansion reads the rows 1..10 for
\* Nk = 4, 1..8 for Nk = 6 and 1..7 for Nk = 8, each once and in this order.
C22_RconIndex ==
  /\ \A s \in Slots : \A k \in 1..Len(fr[s].xsteps) :
       fr[s].xsteps[k][1] = "rcon" => fr[s].xsteps[k][3] \in 1..10
  /\ \A j \in 1..Len(calls) :
       /\ \A k \in 1..Len(calls[j].xsteps) :
            calls[j].xsteps[k][1] = "rcon" => calls[j].xsteps[k][3] \in 1..10
       /\ calls[j].key.shape \in ValidKeyShapes =>
            LET Nk == Size(calls[j].key) \div 4
            IN  /\ calls[j].w # None
                /\ RconReads(calls[j].xsteps)
                     = [k \in 1..((4 * (Nk + 7) - 1) \div Nk) |-> k]

\* expand_key has returned the schedule of a 128-bit key after reading
\* RCON[1] to RCON[10]
C22_Witness ==
  \E j \in 1..Len(calls) :
    /\ calls[j].op = "expand_key"
    /\ calls[j].err = "none"
    /\ RconReads(calls[j].xsteps) = <<1, 2, 3, 4, 5, 6, 7, 8, 9, 10>>
    /\ calls[j].xsteps[1] = <<"rcon", 4, 1>>

\* C23: encrypt_raw and decrypt_raw modify the array they are passed: when a
\* call has returned, the caller's array holds the output block and the value
\* returned is that array.  So the next call on the array works on that
\* output, unless the caller has put its block back into the array first, and
\* a decryption that follows an encryption of the array under the same key
\* gives the block that was encrypted.
C23_InPlace ==
  Quiet => \A j \in 1..Len(calls) :
    (calls[j].op \in Cipher /\ calls[j].err = "none")
    => /\ calls[j].inplace
       /\ calls[j].after = calls[j].out
       /\ j = Len(calls) => mem.state \in {calls[j].out, mem.input}
       /\ (j < Len(calls) /\ calls[j + 1].op \in Cipher)
          => /\ calls[j + 1].arg \in {calls[j].out, mem.input}
             /\ (calls[j].op = "encrypt_raw" /\ calls[j + 1].op = "decrypt_raw"
                   /\ calls[j + 1].arg = calls[j].out /\ IsState(calls[j].arg))
                => calls[j + 1].out = calls[j].arg

\* the caller's array was encrypted twice with nothing in between: the
\* second call was given the ciphertext of the first and returned another
\* block
C23_Witness ==
  /\ Ended(1, "encrypt_raw") /\ Ended(2, "encrypt_raw")
  /\ calls[1].err = "none" /\ calls[2].err = "none"
  /\ calls[1].out # calls[1].arg
  /\ calls[2].arg = calls[1].out
  /\ calls[2].out # calls[1].out
  /\ mem.state = calls[2].out

\* the passes of the loop of expand_key for a key of Nk words, in order
ExpandOrder(Nk) ==
  [k \in 1..(4 * (Nk + 7) - Nk) |->
     LET i == Nk + k - 1
     IN  IF i % Nk = 0 THEN <<"rcon", i, i \div Nk>>
         ELSE IF Nk = 8 /\ i % 8 = 4 THEN <<"sub_word", i>>
         ELSE <<"temp", i>>]

\* the steps on the state that op makes with a key of Nk words
StepOrder(op, Nk) ==
  CASE op = "encrypt_raw" -> EncryptOrder(Nk + 6)
    [] op = "decrypt_raw" -> DecryptOrder(Nk + 6)
    [] op = "expand_key" -> <<>>

ShapeOf(a) == IF a = None THEN <<>> ELSE a.shape

\* C24: no step is chosen by the value of a byte.  The passes of the loop of
\* expand_key (their number, the arm each takes, the index into RCON) and
\* the steps of encrypt_raw and decrypt_raw (which transformation, which
\* round key, how many rounds) of a call that returns are those that the
\* length of the key fixes, whatever the bytes of the block and of the key;
\* and two calls of the same function on arrays of the same shapes end alike
\* after the same passes and steps, whatever bytes the arrays hold.
C24_NoDataBranch ==
  Quiet => \A j \in 1..Len(calls) :
    /\ calls[j].err = "none" =>
         /\ calls[j].xsteps = ExpandOrder(Size(calls[j].key) \div 4)
         /\ calls[j].steps = StepOrder(calls[j].op, Size(calls[j].key) \div 4)
    /\ \A k \in 1..Len(calls) :
         (calls[k].op = calls[j].op /\ calls[k].key.shape = calls[j].key.shape
            /\ ShapeOf(calls[k].arg) = ShapeOf(calls[j].arg))
         => /\ calls[k].err = calls[j].err
            /\ calls[k].steps = calls[j].steps
            /\ calls[k].xsteps = calls[j].xsteps

\* two decryptions under a 128-bit key whose first byte is odd, of two
\* different blocks, have made the same 40 passes and the same 40 steps
C24_Witness ==
  /\ Ended(1, "decrypt_raw") /\ Ended(2, "decrypt_raw")
  /\ calls[1].err = "none" /\ calls[2].err = "none"
  /\ calls[1].arg # calls[2].arg
  /\ calls[1].key.data[0] % 2 = 1
  /\ Len(calls[1].xsteps) = 40 /\ Len(calls[1].steps) = 40
  /\ calls[2].steps = calls[1].steps
  /\ calls[2].xsteps = calls[1].xsteps

\* hex(b): "0x" and the lower-case digits of b without leading zeros
HexLiteral(b) ==
  <<"0", "x">>
    \o (IF b < 16 THEN <<HexDigits[b + 1]>>
        ELSE <<HexDigits[(b \div 16) + 1], HexDigits[(b % 16) + 1]>>)

\* C25: array_to_hex of a one-dimensional byte array gives, for every byte,
\* "0x" followed by its lower-case hexadecimal digits without zero padding,
\* the bytes joined by single blanks: 2b 7e 15 16 gives "0x2b 0x7e 0x15 0x16"
\* and a byte 01 gives "0x1".
C25_HexLiterals ==
  \A n \in 1..Len(ufun) :
    (ufun[n] = "hex_to_array_1d" /\ n < Len(ufun) /\ ufun[n + 1] = "array_to_hex")
    => LET A == uval[n + 1]
       IN  uval[n + 2]
             = Join(<<" ">>, [k \in 1..Size(A) |-> HexLiteral(A.data[k - 1])])

\* word c of the schedule w holds no byte left over from np.empty
Written(w, c) == \A r \in 0..(NB - 1) : w.data[r * w.shape[2] + c] # Uninit

\* nobody has stored a byte into word c of the schedule w
Untouched(w, c) == \A r \in 0..(NB - 1) : w.data[r * w.shape[2] + c] = Uninit

\* the words the passes listed in xs have written, in order
WordsWritten(xs) == [k \in 1..Len(xs) |-> xs[k][2]]

\* C26: in expand_key, for Nk of 4, 6 or 8, the schedule allocated with
\* np.empty is filled in order.  When iteration i begins, the words before i
\* are written, among them the two it reads, w[i - 1] and w[i - Nk], and
\* the words from i on have not been touched; the key copy writes the words
\* 0..Nk-1 and the passes write the words Nk, Nk + 1, ... one each, so that
\* every word is written exactly once; the loop ends after 4 * (Nr + 1) - Nk
\* passes, and the schedule that is returned has no unwritten word.
C26_ScheduleFilled ==
  /\ \A s \in Slots :
       LET f == fr[s]
           nwords == NB * (f.nr + 1)
       IN  f.nk \in {4, 6, 8} =>
             /\ f.w.shape = <<NB, nwords>>
             /\ f.i \in f.nk..nwords
             /\ f.pc = "expand" =>
                  \A c \in 0..(nwords - 1) :
                    IF c < f.i THEN Written(f.w, c) ELSE Untouched(f.w, c)
             /\ (f.pc = "expand" /\ LoopTest(f)) =>
                  /\ f.i - f.nk >= 0
                  /\ Written(f.w, f.i - 1) /\ Written(f.w, f.i - f.nk)
             /\ WordsWritten(f.xsteps) = [k \in 1..(f.i - f.nk) |-> f.nk + k - 1]
             /\ f.pc # "expand" => f.i = nwords
  /\ Quiet => \A j \in 1..Len(calls) :
       calls[j].key.shape \in ValidKeyShapes =>
         LET Nk == Size(calls[j].key) \div 4
             nwords == NB * (Nk + 7)
         IN  /\ calls[j].w # None
             /\ calls[j].w.shape = <<NB, nwords>>
             /\ \A c \in 0..(nwords - 1) : Written(calls[j].w, c)
             /\ Len(calls[j].xsteps) = nwords - Nk
             /\ WordsWritten(calls[j].xsteps) = [k \in 1..(nwords - Nk) |-> Nk + k - 1]

\* expand_key has returned the 60 words of the schedule of a 256-bit key
\* after 52 passes, and in the next call the loop has written the words up
\* to 9 and is about to read the words 9 and 2 to make word 10
C26_Witness ==
  /\ \E j \in 1..Len(calls) :
       /\ calls[j].op = "expand_key"
       /\ calls[j].err = "none"
       /\ calls[j].key.shape = <<4, 8>>
       /\ Len(calls[j].xsteps) = 52
       /\ calls[j].w.shape = <<4, 60>>
  /\ \E s \in Slots :
       /\ fr[s].pc = "expand"
       /\ fr[s].nk = 8
       /\ fr[s].i = 10
       /\ Written(fr[s].w, 9) /\ Written(fr[s].w, 2) /\ Untouched(fr[s].w, 10)

\* every element of the array a is a byte
ByteArray(a) == \A k \in DOMAIN a.data : a.data[k] \in Byte

\* the entries of the matrix with which the step at pc multiplies the State
Coefficients(pc) ==
  LET M == IF pc = "enc_mix" THEN ax_polynomial ELSE inv_ax_polynomial
  IN  {M[i][j] : i, j \in 1..4}

\* gf_multiply(x, y) of two bytes looks up LTABLE and ETABLE inside them
InDomain(x, y) ==
  /\ x \in Byte /\ y \in Byte
  /\ LogSum(x, y) \in 0..508
  /\ ExpIndex(LogSum(x, y)) \in 0..255

\* for all bytes x and y the lookups of gf_multiply are in domain, and a sum
\* of logarithms of 255 reads ETABLE[255], which is 1 as ETABLE[0] is
GfLookups ==
  /\ \A x, y \in Byte : InDomain(x, y)
  /\ ExpIndex(255) = 255
  /\ ETABLE_at(255) = 1 /\ ETABLE_at(0) = 1

\* C27: every table lookup made in gf_multiply, mix_columns,
\* inv_mix_columns, expand_key, encrypt_raw and decrypt_raw is in domain.
\* After every step every byte of the State and of the key schedule is in
\* 0..255 (a word of the schedule not written yet holds whatever byte the
\* memory held); the sum LTABLE[x] + LTABLE[y] is at most 508, and the
\* index into ETABLE made of it, the sum less 255 when it is above 255, is in
\* 0..255: so for the bytes that mix_columns and inv_mix_columns are about
\* to multiply, and so for all bytes.  A sum of exactly 255 reads
\* ETABLE[255] = 1 = ETABLE[0].
C27_LookupsInDomain ==
  /\ GfLookups
  /\ ByteArray(mem.state) /\ ByteArray(mem.key)
  /\ \A s \in Slots :
       LET f == fr[s]
       IN  /\ f.w # None =>
                \A k \in DOMAIN f.w.data :
                  f.w.data[k] \in Byte \/ (f.w.data[k] = Uninit /\ Garbage \subseteq Byte)
           /\ f.exkeys # None => f.exkeys = f.w
           /\ f.pc \in {"enc_mix", "dec_mix"} =>
                \A k \in DOMAIN mem[f.st].data : \A y \in Coefficients(f.pc) :
                  InDomain(mem[f.st].data[k], y)
  /\ Quiet => \A j \in 1..Len(calls) :
       /\ calls[j].w # None => ByteArray(calls[j].w)
       /\ calls[j].out # None => ByteArray(calls[j].out)

\* a call is about to run mix_columns, or inv_mix_columns, on a State with
\* a byte whose logarithm and that of a coefficient add up to exactly 255,
\* and with a byte for which the sum is above 255
C27_Witness ==
  \E s \in Slots :
    /\ fr[s].pc \in {"enc_mix", "dec_mix"}
    /\ fr[s].nk \in {4, 6, 8}
    /\ \E k \in DOMAIN mem[fr[s].st].data : \E y \in Coefficients(fr[s].pc) :
         /\ LogSum(mem[fr[s].st].data[k], y) = 255
         /\ gf_multiply_at(mem[fr[s].st].data[k], y) = 1
    /\ \E k \in DOMAIN mem[fr[s].st].data : \E y \in Coefficients(fr[s].pc) :
         LogSum(mem[fr[s].st].data[k], y) > 255

\* C28: expand_key, encrypt_raw and decrypt_raw never write to their key
\* argument.  The key array is another array than the state array here; at
\* every step of a call and after every call it holds the bytes it held when
\* the call began, which are the first Nk words of the schedule, the copy
\* expand_key made of it then; the round keys are cut from that schedule,
\* the first of them being the first four words of the key, and every call
\* that has ended found in the key what the caller finds in it now.
C28_KeyUnchanged ==
  /\ \A s \in Slots :
       LET f == fr[s]
       IN  /\ f.pc # "idle" => f.ky = "key" /\ f.st # f.ky
           /\ f.w # None =>
                /\ mem.key.shape = <<NB, f.nk>>
                /\ Columns(f.w, 0, f.nk) = mem.key
           /\ f.exkeys # None =>
                /\ f.exkeys = f.w
                /\ RoundKey(f.exkeys, 0) = Columns(mem.key, 0, NB)
  /\ \A j \in 1..Len(calls) :
       /\ calls[j].key = mem.key
       /\ calls[j].w # None =>
            Columns(calls[j].w, 0, mem.key.shape[2]) = mem.key

\* encrypt_raw and then decrypt_raw have run under a 192-bit key and each
\* has changed the state array: the key array holds what the two schedules
\* began with
C28_Witness ==
  /\ Len(calls) = 2
  /\ calls[1].op = "encrypt_raw" /\ calls[1].err = "none"
  /\ calls[2].op = "decrypt_raw" /\ calls[2].err = "none"
  /\ calls[1].out # calls[1].arg /\ calls[2].out # calls[2].arg
  /\ mem.key.shape = <<4, 6>>
  /\ Columns(calls[1].w, 0, 6) = mem.key
  /\ Columns(calls[2].w, 0, 6) = mem.key
  /\ calls[1].key = mem.key /\ calls[2].key = mem.key

====
